---- MODULE Spec2Model ----
(***************************************************************************)
(* A model of the KLang pipeline: tokenizer, recursive-descent parser,     *)
(* tree-walking interpreter and recursive module loader.                   *)
(*                                                                         *)
(* Source text is a sequence of one-character strings.  A JavaScript value *)
(* is a tagged record; every JavaScript object that the program can reach  *)
(* through two names lives in `heap` and is referred to by Ref(k), so that *)
(* aliasing is visible.  A number is n + p*(PI/180): the only irrational   *)
(* the interpreter produces is a multiple of PI/180.                       *)
(***************************************************************************)
EXTENDS Integers, Sequences, FiniteSets, TLC

VARIABLES
  heap,        \* the JavaScript heap: sequence of objects (field name -> value)
  scope,       \* interpret: const scope
  sceneGraph,  \* interpret: const sceneGraph (name -> Ref)
  logs,        \* interpret: const logs
  errors,      \* interpret: const errors
  ctl,         \* the interpreter's call stack: executeBlock / loop activations
  started,     \* history: the top-level statements handed to executeStatement, in order
  thrown,      \* history: how many exceptions were raised inside executeStatement
  iters,       \* history: how many times a loop ran its body
  program,     \* the statements of the AST handed to interpret
  mode,        \* "run" while interpret is running, "done" once it has returned, else "idle"
  tasks,       \* the invocations of compile: status, root source, activations, result
  libraryCache,\* the process-wide cache of fetched library texts, by URL
  fetches,     \* history: how many times fetch was called, by URL
  fileSystem,  \* the file table handed to compile
  owner,       \* the invocation of compile on whose behalf interpret runs
  lexer,       \* tokenize: source, cursor, line, tokens, and whether it has returned
  runs         \* history: what each call of interpret on one AST and module table returned

ivars == <<heap, scope, sceneGraph, logs, errors, ctl, started, thrown, iters, program, mode>>
lvars == <<tasks, libraryCache, fetches, fileSystem, owner, lexer, runs>>
vars == <<ivars, lvars>>

(***************************************************************************)
(* Values                                                                  *)
(***************************************************************************)
Num(n) == [t |-> "num", n |-> n, p |-> 0]
NumPi(n, p) == [t |-> "num", n |-> n, p |-> p]
NaN == [t |-> "nan"]
NonInt == [t |-> "nonint"]          \* a number that is not n + p*PI/180 (a fraction, an infinity)
Str(s) == [t |-> "str", s |-> s]
Bool(b) == [t |-> "bool", b |-> b]
Null == [t |-> "null"]
Undef == [t |-> "undef"]
Ref(k) == [t |-> "ref", r |-> k]
Arr(a) == [t |-> "arr", a |-> a]
Fun(f) == [t |-> "fun", f |-> f]
Obj(o) == [t |-> "obj", o |-> o]    \* an object literal nothing mutates, held by value

IsNum(v) == v.t = "num"
IsStr(v) == v.t = "str"
IsRef(v) == v.t = "ref"
\* v === '<cs>'
IsStrEq(v, cs) == v.t = "str" /\ v.s = cs

\* JavaScript ToBoolean
Truthy(v) ==
  CASE v.t = "num" -> ~(v.n = 0 /\ v.p = 0)
    [] v.t = "nan" -> FALSE
    [] v.t = "str" -> v.s # <<>>
    [] v.t = "bool" -> v.b
    [] v.t = "null" -> FALSE
    [] v.t = "undef" -> FALSE
    [] OTHER -> TRUE

\* typeof v === 'object' (null included, as in JavaScript)
TypeofObject(v) == v.t \in {"ref", "arr", "obj", "null"}

\* a primitive on which a property write throws in strict (module) code
IsPrimitive(v) == v.t \in {"num", "nan", "nonint", "str", "bool"}

\* What every plain object ({} or an object literal) inherits from
\* Object.prototype: o[f] finds these when o has no own property f.
ObjectPrototype(f) ==
  CASE f = <<"c", "o", "n", "s", "t", "r", "u", "c", "t", "o", "r">> -> Fun("Object")
    [] f = <<"t", "o", "S", "t", "r", "i", "n", "g">> -> Fun("toString")
    [] f = <<"v", "a", "l", "u", "e", "O", "f">> -> Fun("valueOf")
    [] f = <<"h", "a", "s", "O", "w", "n", "P", "r", "o", "p", "e", "r", "t", "y">> -> Fun("hasOwnProperty")
    [] OTHER -> Undef
\* f.length of a function value: the number of its declared parameters
FunLength(v) == IF v.f \in {"Object", "hasOwnProperty"} THEN 1 ELSE 0

\* o[f] on a plain object
Get(o, f) == IF f \in DOMAIN o THEN o[f] ELSE ObjectPrototype(f)
Put(o, f, v) == IF f \in DOMAIN o THEN [o EXCEPT ![f] = v] ELSE o @@ (f :> v)

HeapGet(h, v, f) == Get(h[v.r], f)
HeapPut(h, v, f, x) == [h EXCEPT ![v.r] = Put(h[v.r], f, x)]

\* The string constants of the program, as character sequences.
K_type == <<"t", "y", "p", "e">>
K_geometry == <<"g", "e", "o", "m", "e", "t", "r", "y">>
K_group == <<"g", "r", "o", "u", "p">>
K_material == <<"m", "a", "t", "e", "r", "i", "a", "l">>
K_shape == <<"s", "h", "a", "p", "e">>
K_mesh == <<"m", "e", "s", "h">>
K_pyramid == <<"p", "y", "r", "a", "m", "i", "d">>
K_vertices == <<"v", "e", "r", "t", "i", "c", "e", "s">>
K_faces == <<"f", "a", "c", "e", "s">>
K_pos == <<"p", "o", "s">>
K_rot == <<"r", "o", "t">>
K_scale == <<"s", "c", "a", "l", "e">>
K_parent == <<"p", "a", "r", "e", "n", "t">>
K_id == <<"i", "d">>
K_children == <<"c", "h", "i", "l", "d", "r", "e", "n">>
K_x == <<"x">>
K_y == <<"y">>
K_z == <<"z">>
K_height == <<"h", "e", "i", "g", "h", "t">>
K_direction == <<"d", "i", "r", "e", "c", "t", "i", "o", "n">>
K_up == <<"u", "p">>
K_down == <<"d", "o", "w", "n">>
K_left == <<"l", "e", "f", "t">>
K_right == <<"r", "i", "g", "h", "t">>
K_forward == <<"f", "o", "r", "w", "a", "r", "d">>
K_back == <<"b", "a", "c", "k">>
K_base == <<"b", "a", "s", "e">>
K_axis == <<"a", "x", "i", "s">>
K_angle == <<"a", "n", "g", "l", "e">>
K_indices == <<"i", "n", "d", "i", "c", "e", "s">>
K_libraryCall == <<"l", "i", "b", "r", "a", "r", "y", "C", "a", "l", "l">>
K_key == <<"k", "e", "y">>
K_relativeTo == <<"r", "e", "l", "a", "t", "i", "v", "e", "T", "o">>
K_coords == <<"c", "o", "o", "r", "d", "s">>
K_lib == <<"l", "i", "b">>
K_item == <<"i", "t", "e", "m">>
K_ref == <<"r", "e", "f">>
K_color == <<"c", "o", "l", "o", "r">>
K_PI == <<"P", "I">>
K_red == <<"r", "e", "d">>
K_green == <<"g", "r", "e", "e", "n">>
K_blue == <<"b", "l", "u", "e">>
K_white == <<"w", "h", "i", "t", "e">>
K_black == <<"b", "l", "a", "c", "k">>
K_gray == <<"g", "r", "a", "y">>
K_yellow == <<"y", "e", "l", "l", "o", "w">>
K_cyan == <<"c", "y", "a", "n">>
K_magenta == <<"m", "a", "g", "e", "n", "t", "a">>
K_int == <<"i", "n", "t">>
K_float == <<"f", "l", "o", "a", "t">>
K_string == <<"s", "t", "r", "i", "n", "g">>
K_bool == <<"b", "o", "o", "l">>
K_rotate == <<"r", "o", "t", "a", "t", "e">>
K_move == <<"m", "o", "v", "e">>
K_http == <<"h", "t", "t", "p">>
K_klang == <<"k", "l", "a", "n", "g">>
K_null == <<"n", "u", "l", "l">>
K_undefined == <<"u", "n", "d", "e", "f", "i", "n", "e", "d">>
K_true == <<"t", "r", "u", "e">>
K_false == <<"f", "a", "l", "s", "e">>
K_NaN == <<"N", "a", "N">>
K_console == <<"c", "o", "n", "s", "o", "l", "e">>
K_print == <<"p", "r", "i", "n", "t">>
K_objectObject == <<"[", "o", "b", "j", "e", "c", "t", " ", "O", "b", "j", "e", "c", "t", "]">>
K_localAt == <<"l", "o", "c", "a", "l", "@">>
K_dotKlang == <<".", "k", "l", "a", "n", "g">>
K_localSlash == <<"l", "o", "c", "a", "l", "/">>
K_logPrefix == <<">", " ">>
K_imported == <<"I", "m", "p", "o", "r", "t", "e", "d", " ">>
K_asWord == <<" ", "a", "s", " ">>
K_failedToLoad == <<"c", "o", "n", "s", "o", "l", "e", ".", "p", "r", "i", "n", "t", "(", "\"", "F", "a", "i", "l", "e", "d", " ", "t", "o", " ", "l", "o", "a", "d", " ">>
K_failedTail == <<"\"", ")">>
K_infinity == <<"I", "n", "f", "i", "n", "i", "t", "y">>

(***************************************************************************)
(* Character strings                                                       *)
(***************************************************************************)
Digits == {"0", "1", "2", "3", "4", "5", "6", "7", "8", "9"}
DigitChar(d) == <<"0", "1", "2", "3", "4", "5", "6", "7", "8", "9">>[d + 1]
DigitVal(c) == CHOOSE d \in 0..9 : DigitChar(d) = c
Whitespace == {" ", "\n", "\t", "\r"}

\* the elements of a sequence
Range(s) == {s[i] : i \in DOMAIN s}

RECURSIVE Join(_)
Join(cs) == IF cs = <<>> THEN "" ELSE Head(cs) \o Join(Tail(cs))

RECURSIVE NatToString(_)
NatToString(n) == Append(IF n < 10 THEN <<>> ELSE NatToString(n \div 10), DigitChar(n % 10))

\* String(n) for an integer n
IntToString(n) == (IF n < 0 THEN <<"-">> ELSE <<>>) \o NatToString(IF n < 0 THEN 0 - n ELSE n)

RECURSIVE TrimLeft(_)
TrimLeft(cs) == IF cs # <<>> /\ Head(cs) \in Whitespace THEN TrimLeft(Tail(cs)) ELSE cs

RECURSIVE SplitAcc(_, _, _)
SplitAcc(cs, sep, cur) ==
  IF cs = <<>> THEN <<cur>>
  ELSE IF Head(cs) = sep THEN <<cur>> \o SplitAcc(Tail(cs), sep, <<>>)
  ELSE SplitAcc(Tail(cs), sep, Append(cur, Head(cs)))

\* str.split(sep)
Split(cs, sep) == SplitAcc(cs, sep, <<>>)

RECURSIVE DigitRun(_)
DigitRun(cs) == IF cs # <<>> /\ Head(cs) \in Digits THEN <<Head(cs)>> \o DigitRun(Tail(cs)) ELSE <<>>

RECURSIVE DigitsValue(_, _)
DigitsValue(ds, acc) == IF ds = <<>> THEN acc ELSE DigitsValue(Tail(ds), acc * 10 + DigitVal(Head(ds)))

RECURSIVE TrimRight(_)
TrimRight(cs) ==
  IF cs # <<>> /\ cs[Len(cs)] \in Whitespace THEN TrimRight(SubSeq(cs, 1, Len(cs) - 1)) ELSE cs

\* str.trim()
Trim(cs) == TrimRight(TrimLeft(cs))

\* Reading a decimal number: an optional sign, the digit run ip, and in the
\* text `rest` after it an optional "." with its digit run.  NaN when there is
\* no digit; `whole` asks that nothing follows the number (Number), where
\* parseFloat stops at the first character it cannot use.  A non-zero fraction
\* gives NonInt.
FractionOf(rest) == IF rest # <<>> /\ Head(rest) = "." THEN DigitRun(Tail(rest)) ELSE <<>>
DotLen(rest) == IF rest # <<>> /\ Head(rest) = "." THEN 1 ELSE 0
Decimal(neg, ip, rest, whole) ==
  IF ip = <<>> /\ FractionOf(rest) = <<>> THEN NaN
  ELSE IF whole /\ DotLen(rest) + Len(FractionOf(rest)) # Len(rest) THEN NaN
  ELSE IF \E c \in Range(FractionOf(rest)) : c # "0" THEN NonInt
  ELSE Num((IF neg THEN 0 - 1 ELSE 1) * DigitsValue(ip, 0))
AfterInt(neg, body, ip, whole) == Decimal(neg, ip, SubSeq(body, Len(ip) + 1, Len(body)), whole)
Unsigned(neg, body, whole) == AfterInt(neg, body, DigitRun(body), whole)
HasSign(cs) == cs # <<>> /\ Head(cs) \in {"-", "+"}
Signed(cs, whole) ==
  Unsigned(HasSign(cs) /\ Head(cs) = "-", IF HasSign(cs) THEN Tail(cs) ELSE cs, whole)

ParseFloat(cs) == Signed(TrimLeft(cs), FALSE)

\* v || 0
OrZeroValue(v) == IF Truthy(v) THEN v ELSE Num(0)
\* parseFloat(parts[i].trim()) || 0, where parseFloat(undefined) is NaN
OrZero(parts, i) == IF i <= Len(parts) THEN OrZeroValue(ParseFloat(parts[i])) ELSE Num(0)

\* the fields of { x, y, z }
XYZ(x, y, z) == (K_x :> x) @@ (K_y :> y) @@ (K_z :> z)
VectorOf(parts) == Obj(XYZ(OrZero(parts, 1), OrZero(parts, 2), OrZero(parts, 3)))

parseVector(str) == VectorOf(Split(str, ","))

(***************************************************************************)
(* Numbers and the binary operators of evaluateExpression                  *)
(***************************************************************************)
Abs(n) == IF n < 0 THEN 0 - n ELSE n
Sign(n) == IF n < 0 THEN 0 - 1 ELSE IF n > 0 THEN 1 ELSE 0
\* truncating division and the remainder with the sign of the dividend
Quot(a, b) == Sign(a) * Sign(b) * (Abs(a) \div Abs(b))
Rem(a, b) == Sign(a) * (Abs(a) % Abs(b))

IsNumeric(v) == v.t \in {"num", "nan", "nonint"}

NumAdd(a, b) ==
  IF a.t = "nan" \/ b.t = "nan" THEN NaN
  ELSE IF a.t = "nonint" \/ b.t = "nonint" THEN NonInt
  ELSE NumPi(a.n + b.n, a.p + b.p)

NumNeg(a) == IF a.t = "num" THEN NumPi(0 - a.n, 0 - a.p) ELSE a

NumMul(a, b) ==
  IF a.t = "nan" \/ b.t = "nan" THEN NaN
  ELSE IF a.t = "nonint" \/ b.t = "nonint" THEN NonInt
  ELSE IF a.p = 0 THEN NumPi(a.n * b.n, a.n * b.p)
  ELSE IF b.p = 0 THEN NumPi(a.n * b.n, a.p * b.n)
  ELSE NonInt

NumDiv(a, b) ==
  IF a.t = "nan" \/ b.t = "nan" THEN NaN
  ELSE IF a.t = "nonint" \/ b.t = "nonint" THEN NonInt
  ELSE IF b.p # 0 THEN NonInt
  ELSE IF b.n = 0 THEN (IF a.n = 0 /\ a.p = 0 THEN NaN ELSE NonInt)
  ELSE IF Rem(a.n, b.n) = 0 /\ Rem(a.p, b.n) = 0 THEN NumPi(Quot(a.n, b.n), Quot(a.p, b.n))
  ELSE NonInt

NumMod(a, b) ==
  IF a.t = "nan" \/ b.t = "nan" THEN NaN
  ELSE IF a.t = "nonint" \/ b.t = "nonint" THEN NonInt
  ELSE IF a.p # 0 \/ b.p # 0 THEN NonInt
  ELSE IF b.n = 0 THEN NaN
  ELSE Num(Rem(a.n, b.n))

\* a < b on n + p*PI/180, with PI taken as 355/113; a comparison with NaN is
\* false, and one with a NonInt is not decided by the model (taken as false)
NumLess(a, b) ==
  a.t = "num" /\ b.t = "num" /\ (a.n - b.n) * 180 * 113 + (a.p - b.p) * 355 < 0
NumEq(a, b) == a.t = "num" /\ b.t = "num" /\ a.n = b.n /\ a.p = b.p

\* Math.floor of num / den for den > 0
FloorDiv(num, den) == IF num >= 0 THEN num \div den ELSE 0 - ((den - 1 - num) \div den)
\* Math.floor, with PI taken as 355/113
Floor(a) ==
  IF a.t = "num" /\ a.p # 0 THEN Num(FloorDiv(a.n * 180 * 113 + a.p * 355, 180 * 113)) ELSE a

\* Number(str): the whole trimmed string must be a number; "" is 0
StringToNumber(cs) == IF Trim(cs) = <<>> THEN Num(0) ELSE Signed(Trim(cs), TRUE)

\* ToNumber; an object converts through its string form, which is not a number
ToNumber(v) ==
  CASE IsNumeric(v) -> v
    [] v.t = "str" -> StringToNumber(v.s)
    [] v.t = "bool" -> Num(IF v.b THEN 1 ELSE 0)
    [] v.t = "null" -> Num(0)
    [] OTHER -> NaN

\* String(v).  A number with a PI part or a fraction has a decimal expansion the
\* model does not compute: it prints as "#".  An array prints its elements
\* joined by commas; a function prints as "fn".
RECURSIVE ToStr(_)
RECURSIVE JoinItems(_, _)
JoinItems(a, i) ==
  IF i > Len(a) THEN <<>>
  ELSE (IF i > 1 THEN <<",">> ELSE <<>>) \o
       (IF a[i].t \in {"null", "undef"} THEN <<>> ELSE ToStr(a[i])) \o JoinItems(a, i + 1)
ToStr(v) ==
  CASE v.t = "num" -> IF v.p = 0 THEN IntToString(v.n) ELSE <<"#">>
    [] v.t = "nan" -> K_NaN
    [] v.t = "nonint" -> <<"#">>
    [] v.t = "str" -> v.s
    [] v.t = "bool" -> IF v.b THEN K_true ELSE K_false
    [] v.t = "null" -> K_null
    [] v.t = "undef" -> K_undefined
    [] v.t = "arr" -> JoinItems(v.a, 1)
    [] v.t = "fun" -> <<"f", "n">>
    [] OTHER -> K_objectObject

IsObject(v) == v.t \in {"ref", "arr", "obj", "fun"}

\* left == right (loose equality); ln, rn, ls, rs are the two sides converted
\* to numbers and to strings
LooseEq(a, b, ln, rn, ls, rs) ==
  CASE IsNumeric(a) /\ IsNumeric(b) -> NumEq(a, b)
    [] a.t = "str" /\ b.t = "str" -> a.s = b.s
    [] a.t = "bool" /\ b.t = "bool" -> a.b = b.b
    [] a.t \in {"null", "undef"} /\ b.t \in {"null", "undef"} -> TRUE
    [] a.t \in {"null", "undef"} \/ b.t \in {"null", "undef"} -> FALSE
    [] a.t = "ref" /\ b.t = "ref" -> a.r = b.r
    [] IsObject(a) /\ IsObject(b) -> FALSE
    [] IsObject(a) -> b.t = "str" /\ ls = b.s
    [] IsObject(b) -> a.t = "str" /\ rs = a.s
    [] OTHER -> NumEq(ln, rn)

\* left + right: concatenation as soon as one side is a string or an object
JsPlus(a, b, ln, rn, ls, rs) ==
  IF a.t = "str" \/ b.t = "str" \/ IsObject(a) \/ IsObject(b) THEN Str(ls \o rs) ELSE NumAdd(ln, rn)

\* The switch of case 'BinaryExpr' on the two sides and their conversions to
\* numbers (ln, rn) and to strings (ls, rs).  The relational operators convert
\* both sides to numbers; the model has no order on characters, so two strings
\* are compared as numbers too.
Operate(op, left, right, ln, rn, ls, rs) ==
  CASE op = "+" -> JsPlus(left, right, ln, rn, ls, rs)
    [] op = "-" -> NumAdd(ln, NumNeg(rn))
    [] op = "*" -> NumMul(ln, rn)
    [] op = "/" -> NumDiv(ln, rn)
    [] op = "%" -> NumMod(ln, rn)
    [] op = ">" -> Bool(NumLess(rn, ln))
    [] op = "<" -> Bool(NumLess(ln, rn))
    [] op = ">=" -> Bool(NumLess(rn, ln) \/ NumEq(ln, rn))
    [] op = "<=" -> Bool(NumLess(ln, rn) \/ NumEq(ln, rn))
    [] op = "==" -> Bool(LooseEq(left, right, ln, rn, ls, rs))
    [] op = "!=" -> Bool(~LooseEq(left, right, ln, rn, ls, rs))
    [] OTHER -> Num(0)

BinaryOp(op, left, right) ==
  Operate(op, left, right, ToNumber(left), ToNumber(right), ToStr(left), ToStr(right))

(***************************************************************************)
(* Objects                                                                 *)
(***************************************************************************)
\* v[name] for a value that is neither null nor undefined
PropOf(h, v, name) ==
  CASE v.t = "ref" -> HeapGet(h, v, name)
    [] v.t = "obj" -> Get(v.o, name)
    [] OTHER -> Undef

\* the outcome of a step that writes to the heap: [heap, exc]
Wrote(h) == [heap |-> h, exc |-> FALSE]
Failed(h) == [heap |-> h, exc |-> TRUE]

\* target[name] = x in strict code.  Reading or writing a property of null or
\* undefined throws, and so does writing one on a primitive.  A property
\* written on an array or on a by-value object literal is not recorded:
\* nothing in the interpreter reads it back.
SetProp(h, target, name, x) ==
  IF target.t \in {"null", "undef"} \/ IsPrimitive(target) THEN Failed(h)
  ELSE IF target.t = "ref" THEN Wrote(HeapPut(h, target, name, x))
  ELSE Wrote(h)

\* target[name] op= arg
CompoundAssign(h, target, name, op, arg) ==
  IF target.t \in {"null", "undef"} THEN Failed(h)
  ELSE SetProp(h, target, name, BinaryOp(op, PropOf(h, target, name), arg))

\* a fresh object
Alloc(h, o) == Append(h, o)

\* The object literal shared by cube, mesh and group: pos, rot and scale are
\* three fresh objects, parent is null.  The new object is the fourth.
NewSceneObject(h, fields) ==
  h \o << XYZ(Num(0), Num(0), Num(0)), XYZ(Num(0), Num(0), Num(0)), XYZ(Num(1), Num(1), Num(1)),
          fields @@ (K_pos :> Ref(Len(h) + 1)) @@ (K_rot :> Ref(Len(h) + 2)) @@
          (K_scale :> Ref(Len(h) + 3)) @@ (K_parent :> Null) >>

\* JSON.parse(JSON.stringify(v)): [heap, v, exc].  A function or undefined is
\* dropped from an object and becomes null in an array; NaN becomes null; a
\* circular structure throws; at top level a function stringifies to undefined,
\* which JSON.parse rejects.
Cloned(h, v) == [heap |-> h, v |-> v, exc |-> FALSE]
RECURSIVE JsonClone(_, _, _)
RECURSIVE JsonCloneFields(_, _, _, _, _)
RECURSIVE JsonCloneItems(_, _, _, _, _)
FieldCloned(o, keys, k, acc, path, c) ==
  IF c.exc THEN c ELSE JsonCloneFields(c.heap, o, keys \ {k}, acc @@ (k :> c.v), path)
CloneField(h, o, keys, k, acc, path) ==
  IF o[k].t \in {"undef", "fun"} THEN JsonCloneFields(h, o, keys \ {k}, acc, path)
  ELSE FieldCloned(o, keys, k, acc, path, JsonClone(h, o[k], path))
JsonCloneFields(h, o, keys, acc, path) ==
  IF keys = {} THEN Cloned(h, acc)
  ELSE CloneField(h, o, keys, CHOOSE x \in keys : TRUE, acc, path)
ItemCloned(a, i, acc, path, c) ==
  IF c.exc THEN c ELSE JsonCloneItems(c.heap, a, i + 1, Append(acc, c.v), path)
JsonCloneItems(h, a, i, acc, path) ==
  IF i > Len(a) THEN Cloned(h, acc)
  ELSE IF a[i].t \in {"undef", "fun"} THEN JsonCloneItems(h, a, i + 1, Append(acc, Null), path)
  ELSE ItemCloned(a, i, acc, path, JsonClone(h, a[i], path))
\* the clone c of the fields or the items, wrapped as the value of kind t
CloneAs(t, c) ==
  IF c.exc THEN c
  ELSE CASE t = "ref" -> Cloned(Alloc(c.heap, c.v), Ref(Len(c.heap) + 1))
         [] t = "obj" -> Cloned(c.heap, Obj(c.v))
         [] t = "arr" -> Cloned(c.heap, Arr(c.v))
\* a copy of the object alone: the objects it refers to are shared
JsonShallow(h, v, path) ==
  IF v.t = "ref" THEN Cloned(Alloc(h, h[v.r]), Ref(Len(h) + 1)) ELSE Cloned(h, v)
\* JSON.parse(JSON.stringify(v))
JsonClone(h, v, path) ==
  CASE v.t = "nan" -> Cloned(h, Null)
    [] v.t \in {"fun", "undef"} -> [heap |-> h, v |-> Undef, exc |-> TRUE]
    [] v.t = "ref" ->
         IF v.r \in path THEN [heap |-> h, v |-> Undef, exc |-> TRUE]
         ELSE CloneAs("ref", JsonCloneFields(h, h[v.r], DOMAIN h[v.r], <<>>, path \cup {v.r}))
    [] v.t = "obj" -> CloneAs("obj", JsonCloneFields(h, v.o, DOMAIN v.o, <<>>, path))
    [] v.t = "arr" -> CloneAs("arr", JsonCloneItems(h, v.a, 1, <<>>, path))
    [] OTHER -> Cloned(h, v)

(***************************************************************************)
(* evaluateExpression.  The result is [heap, errors, v, exc]: the heap and  *)
(* the error list after the evaluation, the value, and whether it threw.   *)
(* An operator whose last parameter is such a result is the rest of the    *)
(* code after the call that produced it.                                   *)
(***************************************************************************)
Err(msg, arg) == [msg |-> msg, arg |-> arg]
Ret(h, e, v) == [heap |-> h, errors |-> e, v |-> v, exc |-> FALSE]
Throw(h, e) == [heap |-> h, errors |-> e, v |-> Undef, exc |-> TRUE]

\* the AST of an expression that is absent (args[0] of a call without arguments)
NoExpr == [type |-> "undefined"]

ArgAt(args, i) == IF i <= Len(args) THEN args[i] ELSE NoExpr

\* scope[key] and sceneGraph[key] for a key that is any value
KeyOf(v) == ToStr(v)

\* scope[ref.lib][ref.item], or null
LibraryItem(h, lib, item) ==
  IF Truthy(lib) /\ Truthy(PropOf(h, lib, item)) THEN PropOf(h, lib, item) ELSE Null

resolveMaterialRef(h, sc, ref) ==
  IF ref.t = "str"
  THEN IF Truthy(Get(sc, ref.s)) THEN Get(sc, ref.s) ELSE Null
  ELSE IF TypeofObject(ref) /\ ref.t # "null" /\ Truthy(PropOf(h, ref, K_lib))
  THEN LibraryItem(h, Get(sc, KeyOf(PropOf(h, ref, K_lib))), KeyOf(PropOf(h, ref, K_item)))
  ELSE Null

\* { indices: f.indices, material: mat }
Face(indices, mat) == Obj((K_indices :> Arr(indices)) @@ (K_material :> mat))

\* the faces of a mesh literal, in order: [errors, faces]
RECURSIVE ResolveFaces(_, _, _, _, _, _)
FaceWithMaterial(h, sc, faces, i, errs, acc, mat) ==
  ResolveFaces(h, sc, faces, i + 1,
               IF ~Truthy(mat) THEN Append(errs, Err("Warning: Material not found.", faces[i].materialRef))
               ELSE errs,
               Append(acc, Face(faces[i].indices, mat)))
ResolveFaces(h, sc, faces, i, errs, acc) ==
  IF i > Len(faces) THEN [errors |-> errs, faces |-> acc]
  ELSE IF ~Truthy(faces[i].materialRef)
       THEN ResolveFaces(h, sc, faces, i + 1, errs, Append(acc, Face(faces[i].indices, Null)))
  ELSE FaceWithMaterial(h, sc, faces, i, errs, acc, resolveMaterialRef(h, sc, faces[i].materialRef))

\* (deg * Math.PI) / 180
Radians(deg) == NumDiv(NumMul(ToNumber(deg), NumPi(0, 180)), Num(180))

\* A run of compound assignments, target.<field>.<comp> <op>= arg, as the list
\* of their [target, field, comp, op, arg], done in order: [heap, exc]
Update(target, field, comp, op, arg) ==
  [target |-> target, field |-> field, comp |-> comp, op |-> op, arg |-> arg]
RECURSIVE ApplyUpdates(_, _, _)
Updated(updates, i, w) == IF w.exc THEN w ELSE ApplyUpdates(w.heap, updates, i + 1)
ApplyUpdates(h, updates, i) ==
  IF i > Len(updates) THEN Wrote(h)
  ELSE Updated(updates, i,
               CompoundAssign(h, PropOf(h, updates[i].target, updates[i].field), updates[i].comp,
                              updates[i].op, updates[i].arg))

\* the updates of the scale and translate modifiers: one for each of x, y, z
\* that props defines
RECURSIVE ComponentUpdates(_, _, _, _, _)
ComponentUpdates(newObj, field, op, props, comps) ==
  IF comps = <<>> THEN <<>>
  ELSE (IF Get(props, Head(comps)).t = "undef" THEN <<>>
        ELSE <<Update(newObj, field, Head(comps), op, Get(props, Head(comps)))>>)
       \o ComponentUpdates(newObj, field, op, props, Tail(comps))

\* applyRot(axes[i], angles[i]) for each axis: an update when the axis is 'x',
\* 'y' or 'z'
RECURSIVE RotUpdates(_, _, _, _)
RotUpdates(newObj, axes, angles, i) ==
  IF i > Len(axes) THEN <<>>
  ELSE (IF axes[i].t = "str" /\ axes[i].s \in {K_x, K_y, K_z}
        THEN <<Update(newObj, K_rot, axes[i].s, "+", Radians(IF i <= Len(angles) THEN angles[i] ELSE Undef))>>
        ELSE <<>>)
       \o RotUpdates(newObj, axes, angles, i + 1)

\* the updates of the modifier: those of applyRot on one axis and one angle
\* are those of forEach over a list of one
ModifierUpdates(newObj, modifierType, props, ax, an) ==
  CASE modifierType = K_scale -> ComponentUpdates(newObj, K_scale, "*", props, <<K_x, K_y, K_z>>)
    [] modifierType = <<"t", "r", "a", "n", "s", "l", "a", "t", "e">> ->
         ComponentUpdates(newObj, K_pos, "+", props, <<K_x, K_y, K_z>>)
    [] modifierType = K_rotate /\ ax.t = "arr" /\ an.t = "arr" -> RotUpdates(newObj, ax.a, an.a, 1)
    [] modifierType = K_rotate /\ ax.t = "str" /\ IsNumeric(an) -> RotUpdates(newObj, <<ax>>, <<an>>, 1)
    [] OTHER -> <<>>

\* the three assignments of the pyramid modifier: [heap, exc]
MakePyramid(h, newObj, props) ==
  SetProp(SetProp(SetProp(h, newObj, K_shape, Str(K_pyramid)).heap,
                  newObj, K_height,
                  IF Get(props, K_height).t # "undef" THEN Get(props, K_height) ELSE Num(1)).heap,
          newObj, K_direction,
          IF Truthy(Get(props, K_direction)) THEN Get(props, K_direction) ELSE Str(K_up))

\* return newObj, after the writes w
Modified(errs, newObj, w) == IF w.exc THEN Throw(w.heap, errs) ELSE Ret(w.heap, errs, newObj)

\* the body of case 'ModifierExpr' once base is cloned into c
Modify(errs, modifierType, props, c) ==
  IF c.exc THEN Throw(c.heap, errs)
  ELSE IF modifierType = K_pyramid THEN Modified(errs, c.v, MakePyramid(c.heap, c.v, props))
  ELSE Modified(errs, c.v,
                ApplyUpdates(c.heap,
                             ModifierUpdates(c.v, modifierType, props, Get(props, K_axis), Get(props, K_angle)),
                             1))

\* the body of case 'ModifierExpr' once the properties are evaluated
ApplyModifier(h, errs, modifierType, props) ==
  IF ~Truthy(Get(props, K_base))
  THEN Ret(h, Append(errs, Err("Runtime Error: Modifier requires a 'base' property.", <<>>)), Null)
  ELSE Modify(errs, modifierType, props, JsonClone(h, Get(props, K_base), {}))

\* the six quads with the last two in the other order
CubeFacesReordered ==
  << <<0, 1, 2, 3>>, <<4, 5, 6, 7>>, <<0, 1, 5, 4>>, <<1, 2, 6, 5>>, <<3, 0, 4, 7>>, <<2, 3, 7, 6>> >>

CubeFaces ==
  << <<0, 1, 2, 3>>, <<4, 5, 6, 7>>, <<0, 1, 5, 4>>, <<1, 2, 6, 5>>, <<2, 3, 7, 6>>, <<3, 0, 4, 7>> >>

\* the object literals that case 'CubeExpr', 'MeshExpr' and 'GroupExpr' return
GeometryFields(vertices, faces) ==
  (K_type :> Str(K_geometry)) @@ (K_shape :> Str(K_mesh)) @@
  (K_vertices :> Arr(vertices)) @@ (K_faces :> Arr(faces))
GroupFields(children) ==
  (K_type :> Str(K_group)) @@ (K_children :> Arr([i \in 1..Len(children) |-> Str(children[i])]))

\* the value of int(v), float(v), string(v), bool(v)
Coerce(callee, v) ==
  CASE callee = K_int -> Floor(ToNumber(v))
    [] callee = K_float -> IF IsNumeric(v) THEN v ELSE ParseFloat(ToStr(v))
    [] callee = K_string -> Str(ToStr(v))
    [] callee = K_bool -> Bool(Truthy(v))

RECURSIVE evaluateExpression(_, _, _, _)
RECURSIVE EvalList(_, _, _, _, _, _)
RECURSIVE evaluateProperties(_, _, _, _, _, _)

\* exprs.map(v => evaluateExpression(v)): v is the sequence of the values
ListItem(exprs, i, sc, acc, r) ==
  IF r.exc THEN r ELSE EvalList(exprs, i + 1, sc, r.heap, r.errors, Append(acc, r.v))
EvalList(exprs, i, sc, h, errs, acc) ==
  IF i > Len(exprs) THEN Ret(h, errs, acc)
  ELSE ListItem(exprs, i, sc, acc, evaluateExpression(exprs[i], sc, h, errs))

\* v is the evaluated property bag (key -> value)
Property(props, i, sc, acc, r) ==
  IF r.exc THEN r
  ELSE evaluateProperties(props, i + 1, sc, r.heap, r.errors,
                          Put(acc, props[i].key, IF props[i].isArray THEN Arr(r.v) ELSE r.v))
evaluateProperties(props, i, sc, h, errs, acc) ==
  IF i > Len(props) THEN Ret(h, errs, acc)
  ELSE Property(props, i, sc, acc,
                IF props[i].isArray THEN EvalList(props[i].val, 1, sc, h, errs, <<>>)
                ELSE evaluateExpression(props[i].val, sc, h, errs))

\* case 'BinaryExpr' after the left side, and after the right side
BinaryResult(op, left, r) == IF r.exc THEN r ELSE Ret(r.heap, r.errors, BinaryOp(op, left, r.v))
BinaryRight(expr, sc, l) ==
  IF l.exc THEN l
  ELSE BinaryResult(expr.operator, l.v, evaluateExpression(expr.right, sc, l.heap, l.errors))
\* case 'CallExpr' after the argument
Coerced(callee, a) == IF a.exc THEN a ELSE Ret(a.heap, a.errors, Coerce(callee, a.v))
\* case 'MeshExpr' after the faces
MeshObject(h, vertices, rf) ==
  Ret(NewSceneObject(h, GeometryFields(vertices, rf.faces)), rf.errors, Ref(Len(h) + 4))
\* case 'MaterialExpr' and case 'ModifierExpr' after the properties
MaterialObject(r) == IF r.exc THEN r ELSE Ret(Alloc(r.heap, r.v), r.errors, Ref(Len(r.heap) + 1))
ModifierObject(modifierType, r) ==
  IF r.exc THEN r ELSE ApplyModifier(r.heap, r.errors, modifierType, r.v)
\* case 'Reference' with callArgs, on mod = scope[expr.name]
LibraryCall(h, errs, expr, mod) ==
  IF Truthy(mod) /\ Truthy(PropOf(h, mod, expr.callArgs))
  THEN Ret(h, errs, PropOf(h, mod, expr.callArgs))
  ELSE Ret(Alloc(h, (K_libraryCall :> Str(expr.name)) @@ (K_key :> Str(expr.callArgs))),
           errs, Ref(Len(h) + 1))

evaluateExpression(expr, sc, h, errs) ==
  CASE expr.type = "undefined" -> Throw(h, errs)
    [] expr.type = "BinaryExpr" -> BinaryRight(expr, sc, evaluateExpression(expr.left, sc, h, errs))
    [] expr.type = "CallExpr" ->
         IF expr.callee \in {K_int, K_float, K_string, K_bool}
         THEN Coerced(expr.callee, evaluateExpression(ArgAt(expr.args, 1), sc, h, errs))
         ELSE Ret(h, errs, Null)
    [] expr.type = "CubeExpr" ->
         IF Len(expr.vertices) # 8
         THEN Ret(h, Append(errs, Err("Runtime Error: cube() requires exactly 8 vertices.", <<>>)), Null)
         ELSE Ret(NewSceneObject(h, GeometryFields(
                    [i \in 1..8 |-> parseVector(expr.vertices[i])],
                    [i \in 1..6 |-> Obj((K_indices :> Arr([j \in 1..4 |-> Num(CubeFaces[i][j])])))])),
                  errs, Ref(Len(h) + 4))
    [] expr.type = "MeshExpr" ->
         MeshObject(h, expr.vertices, ResolveFaces(h, sc, expr.faces, 1, errs, <<>>))
    [] expr.type = "MaterialExpr" ->
         MaterialObject(evaluateProperties(expr.properties, 1, sc, h, errs, (K_type :> Str(K_material))))
    [] expr.type = "ModifierExpr" ->
         ModifierObject(expr.modifierType, evaluateProperties(expr.properties, 1, sc, h, errs, <<>>))
    [] expr.type = "GroupExpr" ->
         Ret(NewSceneObject(h, GroupFields(expr.children)), errs, Ref(Len(h) + 4))
    [] expr.type = "Literal" -> Ret(h, errs, expr.value)
    [] expr.type = "Reference" ->
         IF expr.callArgs # <<>> THEN LibraryCall(h, errs, expr, Get(sc, expr.name))
         ELSE IF Get(sc, expr.name).t # "undef" THEN Ret(h, errs, Get(sc, expr.name))
         ELSE Ret(h, Append(errs, Err("Runtime Error: Variable not defined.", expr.name)), Null)
    [] OTHER -> Ret(h, errs, Null)

(***************************************************************************)
(* executeStatement, the statements without a block.  The result is        *)
(* [heap, scope, sceneGraph, logs, errors, exc]: the interpreter's state   *)
(* where the switch was left, and whether it was left by an exception.     *)
(***************************************************************************)
Done(h, sc, sg, lg, errs) ==
  [heap |-> h, scope |-> sc, sceneGraph |-> sg, logs |-> lg, errors |-> errs, exc |-> FALSE]
Raised(h, sc, sg, lg, errs) ==
  [heap |-> h, scope |-> sc, sceneGraph |-> sg, logs |-> lg, errors |-> errs, exc |-> TRUE]
\* the statement ends after the writes w
Outcome(sc, sg, lg, errs, w) ==
  [heap |-> w.heap, scope |-> sc, sceneGraph |-> sg, logs |-> lg, errors |-> errs, exc |-> w.exc]

\* value.children.forEach(childId => { child = scope[childId]; if (child) child.parent = id })
RECURSIVE ReparentChildren(_, _, _, _, _)
ChildReparented(sc, children, i, id, w) ==
  IF w.exc THEN w ELSE ReparentChildren(w.heap, sc, children, i + 1, id)
\* a forEach that leaves every child's parent as it is
ReparentsNothing(h, sc, children, i, id) == Wrote(h)

ReparentChildren(h, sc, children, i, id) ==
  IF i > Len(children) THEN Wrote(h)
  ELSE IF ~Truthy(Get(sc, KeyOf(children[i]))) THEN ReparentChildren(h, sc, children, i + 1, id)
  ELSE ChildReparented(sc, children, i, id,
                       SetProp(h, Get(sc, KeyOf(children[i])), K_parent, Str(id)))

\* value && (value.type === 'geometry' || value.type === 'group')
IsSceneValue(h, value) ==
  Truthy(value) /\ PropOf(h, value, K_type) \in {Str(K_geometry), Str(K_group)}

\* value.children.forEach(...) on kids = value.children
Reparent(s, h, sc, sg, lg, errs, kids) ==
  IF kids.t # "arr" THEN Raised(h, sc, sg, lg, errs)
  ELSE Outcome(sc, sg, lg, errs, ReparentChildren(h, sc, kids.a, 1, s.identifier))

\* case 'Assignment' from value.id = s.identifier on: h is the heap after it
Registered(s, h, sc, sg, lg, errs, value) ==
  IF PropOf(h, value, K_type) = Str(K_group) /\ Truthy(PropOf(h, value, K_children))
  THEN Reparent(s, h, sc, sg, lg, errs, PropOf(h, value, K_children))
  ELSE Done(h, sc, sg, lg, errs)

\* case 'Assignment' after const value = evaluateExpression(s.value)
Assigned(s, sc, sg, lg, r) ==
  IF r.exc THEN Raised(r.heap, sc, sg, lg, r.errors)
  ELSE IF ~IsSceneValue(r.heap, r.v)
       THEN Done(r.heap, Put(sc, s.identifier, r.v), sg, lg, r.errors)
  ELSE Registered(s, SetProp(r.heap, r.v, K_id, Str(s.identifier)).heap,
                  Put(sc, s.identifier, r.v), Put(sg, s.identifier, r.v), lg, r.errors, r.v)

ExecAssignment(s, h, sc, sg, lg, errs) ==
  Assigned(s, sc, sg, lg, evaluateExpression(s.value, sc, h, errs))

\* typeof val === 'object' && val.<field>
HasField(h, val, field) == TypeofObject(val) /\ Truthy(PropOf(h, val, field))

\* target.material = ... of a property assignment: [heap, exc].  typeof null
\* is 'object', and reading null.lib throws.
AssignMaterial(h, sc, target, val, withRef) ==
  IF val.t = "null" THEN Failed(h)
  ELSE IF HasField(h, val, K_lib) \/ (withRef /\ HasField(h, val, K_ref))
  THEN SetProp(h, target, K_material,
               resolveMaterialRef(h, sc, IF HasField(h, val, K_lib) THEN val ELSE PropOf(h, val, K_ref)))
  ELSE SetProp(h, target, K_material, val)

\* obj.pos = { x: target.pos.x + offsets.x, ... } on tp = target.pos
OffsetPos(h, obj, tp, off) ==
  IF tp.t \in {"null", "undef"} THEN Failed(h)
  ELSE SetProp(Alloc(h, [c \in {K_x, K_y, K_z} |-> BinaryOp("+", PropOf(h, tp, c), off[c])]),
               obj, K_pos, Ref(Len(h) + 1))

\* the branch val.relativeTo of obj.pos = ...
RelativePos(h, obj, target, coords) ==
  IF coords.t # "str" THEN Failed(h)
  ELSE IF ~Truthy(target) THEN Wrote(h)
  ELSE OffsetPos(h, obj, PropOf(h, target, K_pos), parseVector(coords.s).o)

\* val[i] of an array
ItemAt(a, i) == IF i <= Len(a) THEN a[i] ELSE Undef

\* obj.pos = ... of a property assignment: [heap, exc]
AssignPos(h, sg, obj, val) ==
  IF val.t = "arr"
  THEN SetProp(Alloc(h, XYZ(ItemAt(val.a, 1), ItemAt(val.a, 2), ItemAt(val.a, 3))),
               obj, K_pos, Ref(Len(h) + 1))
  ELSE IF Truthy(val) /\ Truthy(PropOf(h, val, K_relativeTo))
  THEN RelativePos(h, obj, Get(sg, KeyOf(PropOf(h, val, K_relativeTo))), PropOf(h, val, K_coords))
  ELSE Wrote(h)

\* The object a property assignment writes to: [target, skip, exc].  Without a
\* subTarget it is obj; with one it is sceneGraph[s.subTarget] when obj is a
\* group whose children include it, and else nothing is written (skip).
NoTarget(skip, exc) == [target |-> Undef, skip |-> skip, exc |-> exc]
ChildTarget(s, kids, child) ==
  IF kids.t # "arr" THEN NoTarget(FALSE, TRUE)
  ELSE IF (\E i \in 1..Len(kids.a) : IsStrEq(kids.a[i], s.subTarget)) /\ Truthy(child)
  THEN [target |-> child, skip |-> FALSE, exc |-> FALSE]
  ELSE NoTarget(TRUE, FALSE)
TargetOf(s, h, sg, obj) ==
  IF s.subTarget = <<>> THEN [target |-> obj, skip |-> FALSE, exc |-> FALSE]
  ELSE IF PropOf(h, obj, K_type) # Str(K_group) THEN NoTarget(TRUE, FALSE)
  ELSE ChildTarget(s, PropOf(h, obj, K_children), Get(sg, s.subTarget))

\* the assignment itself: [heap, exc]
AssignProperty(s, h, sc, sg, target, val) ==
  IF s.property = K_pos /\ s.subTarget = <<>> THEN AssignPos(h, sg, target, val)
  ELSE IF s.property = K_material THEN AssignMaterial(h, sc, target, val, s.subTarget = <<>>)
  ELSE SetProp(h, target, s.property, val)

\* case 'PropertyAssignment' once val (r) and the target (t) are known
PropertyTarget(s, sc, sg, lg, r, t) ==
  IF t.exc THEN Raised(r.heap, sc, sg, lg, r.errors)
  ELSE IF t.skip THEN Done(r.heap, sc, sg, lg, r.errors)
  ELSE Outcome(sc, sg, lg, r.errors, AssignProperty(s, r.heap, sc, sg, t.target, r.v))

PropertyValue(s, sc, sg, lg, obj, r) ==
  IF r.exc THEN Raised(r.heap, sc, sg, lg, r.errors)
  ELSE PropertyTarget(s, sc, sg, lg, r, TargetOf(s, r.heap, sg, obj))

ExecPropertyAssignment(s, h, sc, sg, lg, errs) ==
  IF ~Truthy(Get(sg, s.objectName))
  THEN Done(h, sc, sg, lg, Append(errs, Err("Runtime Error: Object not found.", s.objectName)))
  ELSE PropertyValue(s, sc, sg, lg, Get(sg, s.objectName),
                     IF s.valueKind = "expr" THEN evaluateExpression(s.value, sc, h, errs)
                     ELSE Ret(h, errs, s.value))

\* obj.pos.<c> += evaluateExpression(args[i]) || 0, for c = x, y, z in turn.
\* obj.pos.<c> is read before the argument is evaluated.
RECURSIVE MoveComponents(_, _, _, _, _, _)
ComponentMoved(s, obj, i, sc, errs, w) ==
  IF w.exc THEN Throw(w.heap, errs) ELSE MoveComponents(s, obj, i + 1, sc, w.heap, errs)
MoveBy(s, obj, i, sc, target, a) ==
  IF a.exc THEN a
  ELSE ComponentMoved(s, obj, i, sc, a.errors,
                      CompoundAssign(a.heap, target, <<K_x, K_y, K_z>>[i], "+", OrZeroValue(a.v)))
MoveComponents(s, obj, i, sc, h, errs) ==
  IF i > 3 THEN Ret(h, errs, Undef)
  ELSE IF PropOf(h, obj, K_pos).t \in {"null", "undef"} THEN Throw(h, errs)
  ELSE MoveBy(s, obj, i, sc, PropOf(h, obj, K_pos), evaluateExpression(ArgAt(s.args, i), sc, h, errs))

\* the updates of obj.rotate(argVal) and of its exclusion
RotateUpdates(s, sg, obj, argVal) ==
  <<Update(obj, K_rot, K_y, "+", Radians(argVal))>> \o
  (IF s.exclusion # <<>> /\ Truthy(Get(sg, s.exclusion))
   THEN <<Update(Get(sg, s.exclusion), K_rot, K_y, "-", Radians(argVal))>>
   ELSE <<>>)

\* the branch 'rotate' after const argVal = evaluateExpression(s.args[0])
Rotated(s, sc, sg, lg, obj, a) ==
  IF a.exc THEN Raised(a.heap, sc, sg, lg, a.errors)
  ELSE Outcome(sc, sg, lg, a.errors, ApplyUpdates(a.heap, RotateUpdates(s, sg, obj, a.v), 1))

\* the branch 'move' after its three assignments
Moved(sc, sg, lg, m) ==
  [heap |-> m.heap, scope |-> sc, sceneGraph |-> sg, logs |-> lg, errors |-> m.errors, exc |-> m.exc]

ExecMethodCall(s, h, sc, sg, lg, errs) ==
  IF ~Truthy(Get(sg, s.objectName))
  THEN Done(h, sc, sg, lg, Append(errs, Err("Runtime Error: Object not found.", s.objectName)))
  ELSE IF s.method = K_rotate
  THEN Rotated(s, sc, sg, lg, Get(sg, s.objectName),
               evaluateExpression(ArgAt(s.args, 1), sc, h, errs))
  ELSE IF s.method = K_move
  THEN Moved(sc, sg, lg, MoveComponents(s, Get(sg, s.objectName), 1, sc, h, errs))
  ELSE Done(h, sc, sg, lg, errs)

\* log(msg): logs.push(`> ${msg}`)
log(lg, msg) == Append(lg, K_logPrefix \o msg)

\* case 'ConsolePrint' after const val = evaluateExpression(s.message)
Printed(sc, sg, lg, r) ==
  IF r.exc THEN Raised(r.heap, sc, sg, lg, r.errors)
  ELSE Done(r.heap, sc, sg, log(lg, ToStr(r.v)), r.errors)

ExecConsolePrint(s, h, sc, sg, lg, errs) ==
  Printed(sc, sg, lg, evaluateExpression(s.message, sc, h, errs))

ExecImport(s, h, sc, sg, lg, errs) ==
  Done(h, sc, sg,
       log(lg, K_imported \o s.source \o (IF s.alias # <<>> THEN K_asWord \o s.alias ELSE <<>>)),
       errs)

SimpleTypes == {"Import", "Assignment", "PropertyAssignment", "MethodCall", "ConsolePrint"}

\* the body of the try of executeStatement, for a statement without a block
ExecSimpleBody(s, h, sc, sg, lg, errs) ==
  CASE s.type = "Import" -> ExecImport(s, h, sc, sg, lg, errs)
    [] s.type = "Assignment" -> ExecAssignment(s, h, sc, sg, lg, errs)
    [] s.type = "PropertyAssignment" -> ExecPropertyAssignment(s, h, sc, sg, lg, errs)
    [] s.type = "MethodCall" -> ExecMethodCall(s, h, sc, sg, lg, errs)
    [] s.type = "ConsolePrint" -> ExecConsolePrint(s, h, sc, sg, lg, errs)
    [] OTHER -> Done(h, sc, sg, lg, errs)

(***************************************************************************)
(* interpret: the state machine.  ctl is the stack of the activations of   *)
(* executeBlock and of the loops of executeStatement; one action runs one  *)
(* statement without a block, or one step of an if, a while or a for.      *)
(***************************************************************************)
LoopCap == 10000

BuiltinScope ==
  (K_PI :> NumPi(0, 180)) @@
  (K_red :> Num(16711680)) @@ (K_green :> Num(65280)) @@ (K_blue :> Num(255)) @@
  (K_white :> Num(16777215)) @@ (K_black :> Num(0)) @@ (K_gray :> Num(8421504)) @@
  (K_yellow :> Num(16776960)) @@ (K_cyan :> Num(65535)) @@ (K_magenta :> Num(16711935)) @@
  (K_x :> Str(K_x)) @@ (K_y :> Str(K_y)) @@ (K_z :> Str(K_z)) @@
  (K_up :> Str(K_up)) @@ (K_down :> Str(K_down)) @@
  (K_left :> Str(K_left)) @@ (K_right :> Str(K_right)) @@
  (K_forward :> Str(K_forward)) @@ (K_back :> Str(K_back))

\* a scope that outlives the call: the bindings of the previous run stay
SeedScopeShared(modules) == modules @@ scope @@ BuiltinScope

\* Object.keys(modules).forEach(alias => scope[alias] = modules[alias])
SeedScope(modules) == modules @@ BuiltinScope

BlockFrame(stmts) == [k |-> "block", stmts |-> stmts, i |-> 1]

Top == ctl[Len(ctl)]
Pop(c) == SubSeq(c, 1, Len(c) - 1)
\* the activation on top has handed its current statement to executeStatement
Advance(c) == [c EXCEPT ![Len(c)].i = @ + 1]
AtStatement(types) ==
  /\ mode = "run" /\ ctl # <<>>
  /\ Top.k = "block" /\ Top.i <= Len(Top.stmts)
  /\ Top.stmts[Top.i].type \in types
NoteStarted == started' = IF Len(ctl) = 1 THEN Append(started, Top.i) ELSE started

\* a catch that hands the exception on to the caller of executeStatement
CatchRethrows(errs) ==
  [errors |-> errs, rethrow |-> TRUE]

\* the catch of executeStatement: the exception becomes an entry of errors
CatchStatement(errs) ==
  [errors |-> Append(errs, Err("Error executing statement", <<>>)), rethrow |-> FALSE]

\* a try that is around the top-level statements only: an exception in a
\* body ends the top-level statement the body belongs to
SettleOutermost(r, next) ==
  /\ heap' = r.heap /\ scope' = r.scope /\ sceneGraph' = r.sceneGraph /\ logs' = r.logs
  /\ thrown' = IF r.exc THEN thrown + 1 ELSE thrown
  /\ errors' = IF r.exc THEN CatchStatement(r.errors).errors ELSE r.errors
  /\ ctl' = IF r.exc /\ Len(ctl) > 1 THEN <<ctl[1]>> ELSE next
  /\ mode' = mode

\* How a step that may throw ends.  r is the state where the try was left and
\* next the stack when the statement is over.  An exception the statement's
\* catch lets through unwinds every executeStatement below it (they share the
\* catch) and ends in the catch around the top-level forEach of interpret.
Settle(r, next) ==
  /\ heap' = r.heap /\ scope' = r.scope /\ sceneGraph' = r.sceneGraph /\ logs' = r.logs
  /\ thrown' = IF r.exc THEN thrown + 1 ELSE thrown
  /\ IF r.exc /\ CatchStatement(r.errors).rethrow
     THEN /\ errors' = Append(r.errors, Err("e.message", <<>>))
          /\ ctl' = <<>>
          /\ mode' = "done"
     ELSE /\ errors' = IF r.exc THEN CatchStatement(r.errors).errors ELSE r.errors
          /\ ctl' = next
          /\ mode' = mode

\* the state where a try is left after the evaluation c, with scope sc
After(c, sc, errs) ==
  [heap |-> c.heap, scope |-> sc, sceneGraph |-> sceneGraph, logs |-> logs,
   errors |-> errs, exc |-> c.exc]

ExecSimple ==
  /\ AtStatement(SimpleTypes)
  /\ \E r \in {ExecSimpleBody(Top.stmts[Top.i], heap, scope, sceneGraph, logs, errors)} :
       Settle(r, Advance(ctl))
  /\ NoteStarted
  /\ UNCHANGED <<iters, program, lvars>>

\* case 'If' after evaluateExpression(s.condition)
IfTaken(s, c) ==
  Settle(After(c, scope, c.errors),
         IF c.exc THEN Advance(ctl)
         ELSE IF Truthy(c.v) THEN Append(Advance(ctl), BlockFrame(s.thenBlock))
         ELSE IF s.elseKind = "If" THEN Append(Advance(ctl), BlockFrame(<<s.elseBlock>>))
         ELSE IF s.elseKind = "Block" THEN Append(Advance(ctl), BlockFrame(s.elseBlock))
         ELSE Advance(ctl))

EnterIf ==
  /\ AtStatement({"If"})
  /\ IfTaken(Top.stmts[Top.i], evaluateExpression(Top.stmts[Top.i].condition, scope, heap, errors))
  /\ NoteStarted
  /\ UNCHANGED <<iters, program, lvars>>

EnterWhile ==
  /\ AtStatement({"While"})
  /\ ctl' = Append(Advance(ctl), [k |-> "while", stmt |-> Top.stmts[Top.i], limit |-> LoopCap])
  /\ NoteStarted
  /\ UNCHANGED <<heap, scope, sceneGraph, logs, errors, thrown, iters, program, mode, lvars>>

CapError(errs, limit) ==
  IF limit = 0 THEN Append(errs, Err("Runtime Error: Loop exceeded 10000 iterations.", <<>>)) ELSE errs

\* a loop test that stops one iteration short of the cap
WhileGoesShort(cond, limit) == Truthy(cond) /\ limit > 1

\* evaluateExpression(s.condition) && limit > 0
WhileGoes(cond, limit) == Truthy(cond) /\ limit > 0

\* the loop of case 'While' after evaluateExpression(s.condition); go is
\* whether the body runs once more
WhileTested(c, go) ==
  /\ Settle(After(c, scope, IF c.exc \/ go THEN c.errors ELSE CapError(c.errors, Top.limit)),
            IF go THEN Append(ctl, BlockFrame(Top.stmt.body)) ELSE Pop(ctl))
  /\ iters' = IF go THEN iters + 1 ELSE iters

WhileTest(c) == WhileTested(c, ~c.exc /\ WhileGoes(c.v, Top.limit))

\* while (evaluateExpression(s.condition) && limit > 0), and what follows the loop
WhileHead ==
  /\ mode = "run" /\ ctl # <<>> /\ Top.k = "while"
  /\ WhileTest(evaluateExpression(Top.stmt.condition, scope, heap, errors))
  /\ UNCHANGED <<started, program, lvars>>

\* start, end and, when the statement has one, step
ForBounds(s) == <<s.start, s.end>> \o (IF s.step.type = "undefined" THEN <<>> ELSE <<s.step>>)

\* case 'For' after start, end and step are evaluated (r.v, in this order)
ForEntered(s, r) ==
  Settle(After(r, IF r.exc THEN scope ELSE Put(scope, s.variable, r.v[1]), r.errors),
         IF r.exc THEN Advance(ctl)
         ELSE Append(Advance(ctl),
                     [k |-> "for", stmt |-> s, limit |-> LoopCap, end |-> r.v[2],
                      step |-> IF Len(r.v) = 3 THEN r.v[3] ELSE Num(1)]))

EnterFor ==
  /\ AtStatement({"For"})
  /\ ForEntered(Top.stmts[Top.i], EvalList(ForBounds(Top.stmts[Top.i]), 1, scope, heap, errors, <<>>))
  /\ NoteStarted
  /\ UNCHANGED <<iters, program, lvars>>

\* a range test that leaves the loop at the bound instead of past it
ForBreaksAtEnd(step, curr, end) ==
  \E op \in {">=", "<="} : BinaryOp(op, step, Num(0)).b /\ BinaryOp(op, curr, end).b

\* step > 0 && curr > end, or step < 0 && curr < end
ForBreaks(step, curr, end) ==
  \E op \in {">", "<"} : BinaryOp(op, step, Num(0)).b /\ BinaryOp(op, curr, end).b

\* the loop of case 'For'; go is whether the body runs once more
ForTested(go) ==
  /\ ctl' = IF go THEN Append(ctl, BlockFrame(Top.stmt.body)) ELSE Pop(ctl)
  /\ errors' = IF go THEN errors ELSE CapError(errors, Top.limit)
  /\ iters' = IF go THEN iters + 1 ELSE iters

\* while (limit > 0) { ...break...; executeBlock(s.body); ... }, and what follows
ForHead ==
  /\ mode = "run" /\ ctl # <<>> /\ Top.k = "for"
  /\ ForTested(Top.limit > 0 /\ ~ForBreaks(Top.step, Get(scope, Top.stmt.variable), Top.end))
  /\ UNCHANGED <<heap, scope, sceneGraph, logs, started, thrown, program, mode, lvars>>

\* back in the loop whose body has run: limit--, and for a for loop
\* scope[s.variable] += step
LoopBack(below, loop) ==
  /\ ctl' = IF loop.k \in {"while", "for"} THEN [below EXCEPT ![Len(below)].limit = @ - 1] ELSE below
  /\ scope' = IF loop.k = "for"
              THEN Put(scope, loop.stmt.variable,
                       BinaryOp("+", Get(scope, loop.stmt.variable), loop.step))
              ELSE scope
  /\ mode' = mode

\* the forEach of executeBlock is over: back in the loop, in the if, or out of
\* interpret
BlockEnd ==
  /\ mode = "run" /\ ctl # <<>>
  /\ Top.k = "block" /\ Top.i > Len(Top.stmts)
  /\ IF Len(ctl) = 1
     THEN ctl' = <<>> /\ mode' = "done" /\ scope' = scope
     ELSE LoopBack(Pop(ctl), ctl[Len(ctl) - 1])
  /\ UNCHANGED <<heap, sceneGraph, logs, errors, started, thrown, iters, program, lvars>>

InterpretNext == ExecSimple \/ EnterIf \/ EnterWhile \/ WhileHead \/ EnterFor \/ ForHead \/ BlockEnd

(***************************************************************************)
(* tokenize                                                                *)
(***************************************************************************)
Lower == {"a", "b", "c", "d", "e", "f", "g", "h", "i", "j", "k", "l", "m",
          "n", "o", "p", "q", "r", "s", "t", "u", "v", "w", "x", "y", "z"}
Upper == {"A", "B", "C", "D", "E", "F", "G", "H", "I", "J", "K", "L", "M",
          "N", "O", "P", "Q", "R", "S", "T", "U", "V", "W", "X", "Y", "Z"}
IdentStart == Lower \cup Upper \cup {"_", "@"}
IdentPart == IdentStart \cup Digits
SymbolChars == {"{", "}", "[", "]", "(", ")", ":", ",", "=", ".", ";", "+", "-", "*", "/", ">", "<", "!", "%"}
TwoCharOps == {<<"=", "=">>, <<"!", "=">>, <<">", "=">>, <<"<", "=">>}

K_cube == <<"c", "u", "b", "e">>
K_modifier == <<"m", "o", "d", "i", "f", "i", "e", "r">>

KEYWORDS ==
  {<<"i", "m", "p", "o", "r", "t">>, <<"f", "r", "o", "m">>, <<"a", "s">>,
   K_cube, K_material, K_modifier, K_group, K_mesh,
   <<"n", "o", "t">>, <<"l", "o", "c", "a", "l">>,
   <<"i", "f">>, <<"e", "l", "s", "e">>, <<"w", "h", "i", "l", "e">>, <<"f", "o", "r">>,
   <<"t", "o">>, <<"s", "t", "e", "p">>,
   K_int, K_float, K_string, K_bool}

Token(type, value, line) == [type |-> type, value |-> value, line |-> line]

\* source[i], undefined past the end
CharAt(src, i) == IF i <= Len(src) THEN src[i] ELSE ""

Least(S) == CHOOSE j \in S : \A k \in S : j <= k

\* the first index from i on whose character is not in set (Len + 1 if none)
RunEnd(src, i, set) == Least({j \in i..(Len(src) + 1) : CharAt(src, j) \notin set})

\* the first index from i on that holds c (Len + 1 if none)
Find(src, i, c) == Least({j \in i..(Len(src) + 1) : CharAt(src, j) \in {c, ""}})

\* tokens.push({ type, value, line }), and the cursor after the token
Pushed(s, type, value, cursor) ==
  [s EXCEPT !.cursor = cursor, !.tokens = Append(@, Token(type, value, s.line))]

\* the token whose characters are those from first up to end, not included
Lexeme(src, s, type, first, end, cursor) == Pushed(s, type, SubSeq(src, first, end - 1), cursor)

\* an identifier or a keyword
Word(s, value) ==
  Pushed(s, IF value \in KEYWORDS THEN "KEYWORD" ELSE "IDENTIFIER", value, s.cursor + Len(value))

\* One turn of the loop of tokenize.  s is [cursor, line, tokens], cursor
\* being the index of the next character, from 1.
ScanStep(src, s) ==
  IF s.cursor > Len(src) THEN s
  ELSE IF src[s.cursor] \in Whitespace
  THEN [s EXCEPT !.cursor = @ + 1, !.line = IF src[s.cursor] = "\n" THEN @ + 1 ELSE @]
  ELSE IF (src[s.cursor] = "/" /\ CharAt(src, s.cursor + 1) = "/") \/ src[s.cursor] = "#"
  THEN [s EXCEPT !.cursor = Find(src, s.cursor, "\n")]
  ELSE IF <<src[s.cursor], CharAt(src, s.cursor + 1)>> \in TwoCharOps
  THEN Pushed(s, "OPERATOR", <<src[s.cursor], src[s.cursor + 1]>>, s.cursor + 2)
  ELSE IF src[s.cursor] \in SymbolChars
  THEN Pushed(s, "SYMBOL", <<src[s.cursor]>>, s.cursor + 1)
  ELSE IF src[s.cursor] \in Digits
  THEN Lexeme(src, s, "NUMBER", s.cursor, RunEnd(src, s.cursor + 1, Digits \cup {"."}),
              RunEnd(src, s.cursor + 1, Digits \cup {"."}))
  ELSE IF src[s.cursor] = "\""
  THEN Lexeme(src, s, "STRING", s.cursor + 1, Find(src, s.cursor + 1, "\""),
              Find(src, s.cursor + 1, "\"") + 1)
  ELSE IF src[s.cursor] \in IdentStart
  THEN Word(s, SubSeq(src, s.cursor, RunEnd(src, s.cursor, IdentPart) - 1))
  ELSE [s EXCEPT !.cursor = @ + 1]

\* the least k with 2^k >= n
RECURSIVE Log2(_)
Log2(n) == IF n <= 1 THEN 0 ELSE 1 + Log2((n + 1) \div 2)

\* The loop of tokenize, 2^k turns of it unless the source ends before
RECURSIVE Scan(_, _, _)
Scan(src, s, k) ==
  IF s.cursor > Len(src) THEN s
  ELSE IF k = 0 THEN ScanStep(src, s)
  ELSE Scan(src, Scan(src, s, k - 1), k - 1)

\* a second EOF token
ScannedTwice(s) == Append(Append(s.tokens, Token("EOF", <<>>, s.line)), Token("EOF", <<>>, s.line))

\* tokens.push({ type: EOF, value: '', line })
Scanned(s) == Append(s.tokens, Token("EOF", <<>>, s.line))

\* every turn of the loop moves the cursor, so there are at most source.length
tokenize(source) ==
  Scanned(Scan(source, [cursor |-> 1, line |-> 1, tokens |-> <<>>], Log2(Len(source))))

\* The locals of one call of tokenize, and whether it has returned
Scanning(source) == [source |-> source, cursor |-> 1, line |-> 1, tokens |-> <<>>, done |-> FALSE]
NoScan == [source |-> <<>>, cursor |-> 1, line |-> 1, tokens |-> <<>>, done |-> TRUE]
Locals == [cursor |-> lexer.cursor, line |-> lexer.line, tokens |-> lexer.tokens]

\* while (cursor < source.length) { ... }: one turn
ScanTurn ==
  /\ ~lexer.done
  /\ lexer.cursor <= Len(lexer.source)
  /\ \E s \in {ScanStep(lexer.source, Locals)} :
       lexer' = [lexer EXCEPT !.cursor = s.cursor, !.line = s.line, !.tokens = s.tokens]
  /\ UNCHANGED <<ivars, tasks, libraryCache, fetches, fileSystem, owner, runs>>

\* the loop is left: tokens.push(EOF); return tokens
PushEOF ==
  /\ ~lexer.done
  /\ lexer.cursor > Len(lexer.source)
  /\ lexer' = [lexer EXCEPT !.tokens = Scanned(Locals), !.done = TRUE]
  /\ UNCHANGED <<ivars, tasks, libraryCache, fetches, fileSystem, owner, runs>>

(***************************************************************************)
(* parse.  The parser's state p is [pos, err, line, out]: pos is           *)
(* current + 1; err is "" until a throw (then the kind of the error, and   *)
(* line the line its message cites); out is the stack of what the rules    *)
(* have returned and their callers have not used yet.  A rule maps the     *)
(* state before it to the state after it, with its result pushed on out;   *)
(* after a throw every rule leaves the state as it is, which is the        *)
(* unwinding of the exception.  An operator whose last parameter is p is   *)
(* the rest of a rule after the calls that led to p.                       *)
(***************************************************************************)
PStart == [pos |-> 1, err |-> "", line |-> 0, out |-> <<>>]
Ok(p) == p.err = ""
Fail(p, kind, line) == IF Ok(p) THEN [p EXCEPT !.err = kind, !.line = line] ELSE p

\* tokens[current + offset]; past the array the read gives undefined
peek(toks, p, offset) ==
  IF p.pos + offset <= Len(toks) THEN toks[p.pos + offset] ELSE Token("undefined", <<>>, 0)

\* advance(): if (current < tokens.length) current++
advance(toks, p) == IF Ok(p) /\ p.pos <= Len(toks) THEN [p EXCEPT !.pos = @ + 1] ELSE p

\* the test of check and expect on a token; value <<>> stands for an omitted value
IsToken(token, type, value) == token.type = type /\ (value = <<>> \/ token.value = value)

check(toks, p, type, value) ==
  Ok(p) /\ peek(toks, p, 0).type # "EOF" /\ IsToken(peek(toks, p, 0), type, value)

\* match(type, value): the state after it; whether it matched is check(...)
match(toks, p, type, value) == IF check(toks, p, type, value) THEN advance(toks, p) ELSE p

\* expect(type, value): the state after it; reading token.type of undefined throws
expect(toks, p, type, value) ==
  IF ~Ok(p) THEN p
  ELSE IF peek(toks, p, 0).type = "undefined" THEN Fail(p, "TypeError", 0)
  ELSE IF ~IsToken(peek(toks, p, 0), type, value) THEN Fail(p, "SyntaxError", peek(toks, p, 0).line)
  ELSE advance(toks, p)

\* a rule returns x
Push(p, x) == IF Ok(p) THEN [p EXCEPT !.out = Append(@, x)] ELSE p
\* the i-th of the n results on top of out
Arg(p, n, i) == p.out[Len(p.out) - n + i]
\* the n results on top of out are used to make node
Reduce(p, n, node) ==
  IF Ok(p) THEN [p EXCEPT !.out = Append(SubSeq(@, 1, Len(@) - n), node)] ELSE p
\* the n results on top of out, as one list
Collect(p, n) == Reduce(p, n, SubSeq(p.out, Len(p.out) - n + 1, Len(p.out)))
\* expect(type, value).value
take(toks, p, type, value) == Push(expect(toks, p, type, value), peek(toks, p, 0).value)

Sym(c) == <<c>>
Literal(v) == [type |-> "Literal", value |-> v]
Reference(name, callArgs) == [type |-> "Reference", name |-> name, callArgs |-> callArgs]

\* parseInt of a NUMBER token's text
ParseInt(cs) == Num(DigitsValue(DigitRun(cs), 0))

RECURSIVE parseStatement(_, _)
RECURSIVE parseExpression(_, _)
RECURSIVE parseUnary(_, _)
RECURSIVE parsePrimary(_, _)
RECURSIVE BinaryLoop(_, _, _)
RECURSIVE Operand(_, _, _)
RECURSIVE StatementsUntil(_, _, _)
RECURSIVE parseIf(_, _)
RECURSIVE ArgList(_, _, _)
RECURSIVE parseKeyValueBlock(_, _)

\* The operators of a precedence level: 1 parseEquality, 2 parseComparison,
\* 3 parseTerm, 4 parseFactor
LevelOps(level) ==
  CASE level = 1 -> {<<"OPERATOR", <<"=", "=">> >>, <<"OPERATOR", <<"!", "=">> >>}
    [] level = 2 -> {<<"SYMBOL", <<">">> >>, <<"SYMBOL", <<"<">> >>,
                     <<"OPERATOR", <<">", "=">> >>, <<"OPERATOR", <<"<", "=">> >>}
    [] level = 3 -> {<<"SYMBOL", <<"+">> >>, <<"SYMBOL", <<"-">> >>}
    [] level = 4 -> {<<"SYMBOL", <<"*">> >>, <<"SYMBOL", <<"/">> >>, <<"SYMBOL", <<"%">> >>}

\* match(op1) || match(op2) || ... of the loop of a level
LevelOp(toks, p, level) ==
  Ok(p) /\ <<peek(toks, p, 0).type, peek(toks, p, 0).value>> \in LevelOps(level)

\* expr = { type: 'BinaryExpr', left: expr, operator, right }
MakeBinary(op, p) ==
  Reduce(p, 2, [type |-> "BinaryExpr", left |-> Arg(p, 2, 1), operator |-> Join(op),
                right |-> Arg(p, 2, 2)])

\* the operand of a level: the rule of the next level, parseUnary for parseFactor
Operand(toks, p, level) ==
  IF level = 4 THEN parseUnary(toks, p)
  ELSE BinaryLoop(toks, Operand(toks, p, level + 1), level + 1)

\* while (match(op)) { right = operand(); expr = BinaryExpr(expr, op, right) }
BinaryLoop(toks, p, level) ==
  IF LevelOp(toks, p, level)
  THEN BinaryLoop(toks, MakeBinary(peek(toks, p, 0).value, Operand(toks, advance(toks, p), level)),
                  level)
  ELSE p

\* parseExpression is parseLogicOr, which is parseEquality: the operand of no level
parseExpression(toks, p) == Operand(toks, p, 0)

parseUnary(toks, p) ==
  IF check(toks, p, "SYMBOL", Sym("-"))
  THEN MakeBinary(Sym("-"), parseUnary(toks, Push(advance(toks, p), Literal(Num(0)))))
  ELSE parsePrimary(toks, p)

\* args.push(parseExpression()); while (match(',')) args.push(parseExpression())
ArgMore(toks, p, n) ==
  IF check(toks, p, "SYMBOL", Sym(",")) THEN ArgList(toks, advance(toks, p), n) ELSE Collect(p, n)
ArgList(toks, p, n) == ArgMore(toks, parseExpression(toks, p), n + 1)

\* the arguments up to and with the closing parenthesis; p is after the '('
CallArgs(toks, p) ==
  expect(toks, IF check(toks, p, "SYMBOL", Sym(")")) THEN Push(p, <<>>) ELSE ArgList(toks, p, 0),
         "SYMBOL", Sym(")"))

\* the loop of parseCube, and the return
RECURSIVE CubeLoop(_, _, _, _)
CubeLoop(toks, p, vertices, buffer) ==
  IF Ok(p) /\ peek(toks, p, 0).type \notin {"EOF", "undefined"} /\ peek(toks, p, 0).value # Sym(")")
  THEN IF peek(toks, p, 0).value = Sym(":")
       THEN CubeLoop(toks, advance(toks, p), Append(vertices, Trim(buffer)), <<>>)
       ELSE CubeLoop(toks, advance(toks, p), vertices, buffer \o peek(toks, p, 0).value)
  ELSE Push(expect(toks, p, "SYMBOL", Sym(")")),
            [type |-> "CubeExpr",
             vertices |-> IF buffer # <<>> THEN Append(vertices, Trim(buffer)) ELSE vertices])

parseCube(toks, p) ==
  CubeLoop(toks, expect(toks, expect(toks, p, "KEYWORD", K_cube), "SYMBOL", Sym("(")),
           <<>>, <<>>)

\* parseCoord of parseMesh; p is after the optional '-'
Coord(toks, neg, p) ==
  Push(expect(toks, p, "NUMBER", <<>>),
       NumMul(ParseFloat(peek(toks, p, 0).value), Num(IF neg THEN 0 - 1 ELSE 1)))
parseCoord(toks, p) == Coord(toks, check(toks, p, "SYMBOL", Sym("-")), match(toks, p, "SYMBOL", Sym("-")))

\* vertices.push({ x, y, z })
MakeVertex(p) == Reduce(p, 3, Obj(XYZ(Arg(p, 3, 1), Arg(p, 3, 2), Arg(p, 3, 3))))

\* while (peek().value !== ']') { x , y , z ; }
RECURSIVE MeshVertices(_, _, _)
MeshVertices(toks, p, n) ==
  IF ~Ok(p) \/ peek(toks, p, 0).value = Sym("]") THEN Collect(p, n)
  ELSE MeshVertices(toks,
         MakeVertex(expect(toks,
           parseCoord(toks, expect(toks,
             parseCoord(toks, expect(toks,
               parseCoord(toks, p),
               "SYMBOL", Sym(","))),
             "SYMBOL", Sym(","))),
           "SYMBOL", Sym(";"))),
         n + 1)

\* while (true) { indices.push(parseInt(expect(NUMBER).value)); if (!match(',')) break }
RECURSIVE FaceIndices(_, _, _)
IndexMore(toks, p, n) ==
  IF check(toks, p, "SYMBOL", Sym(",")) THEN FaceIndices(toks, advance(toks, p), n) ELSE Collect(p, n)
FaceIndices(toks, p, n) ==
  IndexMore(toks, Push(expect(toks, p, "NUMBER", <<>>), ParseInt(peek(toks, p, 0).value)), n + 1)

\* materialRef = { lib: refName, item: subRef }, or refName; p is after refName
MaterialRef(toks, p) ==
  IF check(toks, p, "SYMBOL", Sym("."))
  THEN Reduce(take(toks, advance(toks, p), "IDENTIFIER", <<>>), 2,
              Obj((K_lib :> Str(Arg(p, 1, 1))) @@
                  (K_item :> Str(peek(toks, advance(toks, p), 0).value))))
  ELSE Reduce(p, 1, Str(Arg(p, 1, 1)))

\* the optional material of a face; p is after the indices
FaceMaterial(toks, p) ==
  IF check(toks, p, "SYMBOL", Sym(":"))
  THEN MaterialRef(toks, take(toks, advance(toks, p), "IDENTIFIER", <<>>))
  ELSE Push(p, Undef)

\* faces.push({ indices, materialRef })
MakeFace(p) == Reduce(p, 2, [indices |-> Arg(p, 2, 1), materialRef |-> Arg(p, 2, 2)])

\* while (peek().value !== ']') { indices [: ref[.sub]] ; }
RECURSIVE MeshFaces(_, _, _)
MeshFaces(toks, p, n) ==
  IF ~Ok(p) \/ peek(toks, p, 0).value = Sym("]") THEN Collect(p, n)
  ELSE MeshFaces(toks,
                 MakeFace(expect(toks, FaceMaterial(toks, FaceIndices(toks, p, 0)), "SYMBOL", Sym(";"))),
                 n + 1)

\* the lists of a section are appended to the vertices and the faces of the mesh
AddVertices(p) == Reduce(p, 2, [Arg(p, 2, 1) EXCEPT !.vertices = @ \o Arg(p, 2, 2)])
\* a faces section whose list is left out of the mesh
AddNoFaces(p) == Reduce(p, 2, Arg(p, 2, 1))
AddFaces(p) == Reduce(p, 2, [Arg(p, 2, 1) EXCEPT !.faces = @ \o Arg(p, 2, 2)])

\* the body of a section; p is after key = [
MeshSection(toks, p, key) ==
  IF key = K_vertices THEN AddVertices(MeshVertices(toks, p, 0))
  ELSE IF key = K_faces THEN AddFaces(MeshFaces(toks, p, 0))
  ELSE p

\* while (peek().value !== '}') { key = [ ... ] }
RECURSIVE MeshSections(_, _)
MeshSections(toks, p) ==
  IF ~Ok(p) \/ peek(toks, p, 0).value = Sym("}") THEN p
  ELSE MeshSections(toks,
         expect(toks,
           MeshSection(toks,
             expect(toks, expect(toks, expect(toks, p, "IDENTIFIER", <<>>), "SYMBOL", Sym("=")),
                    "SYMBOL", Sym("[")),
             peek(toks, p, 0).value),
           "SYMBOL", Sym("]")))

MakeMesh(p) ==
  Reduce(p, 1, [type |-> "MeshExpr", vertices |-> Arg(p, 1, 1).vertices, faces |-> Arg(p, 1, 1).faces])

parseMesh(toks, p) ==
  MakeMesh(expect(toks,
    MeshSections(toks, Push(expect(toks, expect(toks, p, "KEYWORD", K_mesh), "SYMBOL", Sym("{")),
                            [vertices |-> <<>>, faces |-> <<>>])),
    "SYMBOL", Sym("}")))

\* while (peek().value !== ']') { children.push(expect(IDENTIFIER).value); if (peek().value === ',') advance() }
GroupComma(toks, p) == IF Ok(p) /\ peek(toks, p, 0).value = Sym(",") THEN advance(toks, p) ELSE p
RECURSIVE GroupChildren(_, _, _)
GroupChildren(toks, p, n) ==
  IF ~Ok(p) \/ peek(toks, p, 0).value = Sym("]") THEN Collect(p, n)
  ELSE GroupChildren(toks, GroupComma(toks, take(toks, p, "IDENTIFIER", <<>>)), n + 1)

MakeGroup(p) == Reduce(p, 1, [type |-> "GroupExpr", children |-> Arg(p, 1, 1)])

parseGroup(toks, p) ==
  MakeGroup(expect(toks,
    GroupChildren(toks, expect(toks, expect(toks, p, "KEYWORD", K_group), "SYMBOL", Sym("[")), 0),
    "SYMBOL", Sym("]")))

\* keys.push(expect(IDENTIFIER).value); while (match(',')) keys.push(expect(IDENTIFIER).value)
RECURSIVE KeyList(_, _, _)
KeyMore(toks, p, n) ==
  IF check(toks, p, "SYMBOL", Sym(",")) THEN KeyList(toks, advance(toks, p), n) ELSE Collect(p, n)
KeyList(toks, p, n) == KeyMore(toks, take(toks, p, "IDENTIFIER", <<>>), n + 1)

\* props[key] = val: a key already there keeps its place
PropIndex(props, key) == {i \in DOMAIN props : props[i].key = key}
PutProp(props, prop) ==
  IF PropIndex(props, prop.key) = {} THEN Append(props, prop)
  ELSE [i \in DOMAIN props |-> IF props[i].key = prop.key THEN prop ELSE props[i]]

\* keys.forEach((k, i) => props[k] = values[i])
RECURSIVE PutAll(_, _, _, _)
PutAll(props, keys, values, i) ==
  IF i > Len(keys) THEN props
  ELSE PutAll(PutProp(props, [key |-> keys[i], isArray |-> FALSE, val |-> values[i]]),
              keys, values, i + 1)

\* the end of a line of the block: props, keys and values are on top of out
PutProps(p) ==
  IF ~Ok(p) THEN p
  ELSE IF Len(Arg(p, 3, 2)) = Len(Arg(p, 3, 3))
  THEN Reduce(p, 3, PutAll(Arg(p, 3, 1), Arg(p, 3, 2), Arg(p, 3, 3), 1))
  ELSE IF Len(Arg(p, 3, 2)) = 1
  THEN Reduce(p, 3, PutProp(Arg(p, 3, 1),
                            [key |-> Arg(p, 3, 2)[1], isArray |-> TRUE, val |-> Arg(p, 3, 3)]))
  ELSE Fail(p, "CountMismatch", 0)

\* while (peek().value !== '}') { keys = values }
parseKeyValueBlock(toks, p) ==
  IF ~Ok(p) \/ peek(toks, p, 0).value = Sym("}") THEN p
  ELSE parseKeyValueBlock(toks,
         PutProps(ArgList(toks, expect(toks, KeyList(toks, p, 0), "SYMBOL", Sym("=")), 0)))

MakeMaterial(p) == Reduce(p, 1, [type |-> "MaterialExpr", properties |-> Arg(p, 1, 1)])

parseMaterial(toks, p) ==
  MakeMaterial(expect(toks,
    parseKeyValueBlock(toks,
      Push(expect(toks, expect(toks, p, "KEYWORD", K_material), "SYMBOL", Sym("{")), <<>>)),
    "SYMBOL", Sym("}")))

MakeModifier(p) ==
  Reduce(p, 2, [type |-> "ModifierExpr", modifierType |-> Arg(p, 2, 1), properties |-> Arg(p, 2, 2)])

parseModifier(toks, p) ==
  MakeModifier(expect(toks,
    parseKeyValueBlock(toks,
      Push(expect(toks,
             take(toks, expect(toks, expect(toks, p, "KEYWORD", K_modifier), "SYMBOL", Sym(".")),
                  "IDENTIFIER", <<>>),
             "SYMBOL", Sym("{")),
           <<>>)),
    "SYMBOL", Sym("}")))

\* return { type: 'CallExpr', callee, args }
MakeCall(callee, p) == Reduce(p, 1, [type |-> "CallExpr", callee |-> callee, args |-> Arg(p, 1, 1)])

\* after id.sub
AfterMember(toks, p, id, sub) ==
  IF check(toks, p, "SYMBOL", Sym("("))
  THEN MakeCall(id \o Sym(".") \o sub, CallArgs(toks, advance(toks, p)))
  ELSE Push(p, Reference(id, sub))

\* after the identifier of a primary expression
AfterIdentifier(toks, p, id) ==
  IF check(toks, p, "SYMBOL", Sym("("))
  THEN MakeCall(id, CallArgs(toks, advance(toks, p)))
  ELSE IF check(toks, p, "SYMBOL", Sym(".")) /\ peek(toks, p, 1).type = "IDENTIFIER"
  THEN AfterMember(toks, advance(toks, advance(toks, p)), id, peek(toks, p, 1).value)
  ELSE Push(p, Reference(id, <<>>))

parsePrimary(toks, p) ==
  IF ~Ok(p) THEN p
  ELSE IF peek(toks, p, 0).type = "undefined" THEN Fail(p, "TypeError", 0)
  ELSE IF peek(toks, p, 0).type = "NUMBER"
  THEN Push(advance(toks, p), Literal(ParseFloat(peek(toks, p, 0).value)))
  ELSE IF peek(toks, p, 0).type = "STRING"
  THEN Push(advance(toks, p), Literal(Str(peek(toks, p, 0).value)))
  ELSE IF peek(toks, p, 0).value = K_cube THEN parseCube(toks, p)
  ELSE IF peek(toks, p, 0).value = K_mesh THEN parseMesh(toks, p)
  ELSE IF peek(toks, p, 0).value = K_material THEN parseMaterial(toks, p)
  ELSE IF peek(toks, p, 0).value = K_modifier THEN parseModifier(toks, p)
  ELSE IF peek(toks, p, 0).value = K_group THEN parseGroup(toks, p)
  ELSE IF peek(toks, p, 0).type = "IDENTIFIER"
  THEN AfterIdentifier(toks, advance(toks, p), peek(toks, p, 0).value)
  ELSE IF check(toks, p, "SYMBOL", Sym("("))
  THEN expect(toks, parseExpression(toks, advance(toks, p)), "SYMBOL", Sym(")"))
  ELSE Fail(p, "UnknownExpression", peek(toks, p, 0).line)

\* { statements }
StatementsUntil(toks, p, n) ==
  IF ~Ok(p) \/ check(toks, p, "SYMBOL", Sym("}")) THEN Collect(p, n)
  ELSE StatementsUntil(toks, parseStatement(toks, p), n + 1)

parseBlock(toks, p) ==
  expect(toks, StatementsUntil(toks, expect(toks, p, "SYMBOL", Sym("{")), 0), "SYMBOL", Sym("}"))

MakeIf(kind, p) ==
  Reduce(p, 3, [type |-> "If", condition |-> Arg(p, 3, 1), thenBlock |-> Arg(p, 3, 2),
                elseKind |-> kind, elseBlock |-> Arg(p, 3, 3)])

\* after the then block
IfElse(toks, p) ==
  IF ~check(toks, p, "KEYWORD", <<"e", "l", "s", "e">>) THEN MakeIf("none", Push(p, <<>>))
  ELSE IF check(toks, advance(toks, p), "KEYWORD", <<"i", "f">>)
  THEN MakeIf("If", parseIf(toks, advance(toks, p)))
  ELSE MakeIf("Block", parseBlock(toks, advance(toks, p)))

parseIf(toks, p) ==
  IfElse(toks, parseBlock(toks, parseExpression(toks, expect(toks, p, "KEYWORD", <<"i", "f">>))))

MakeWhile(p) == Reduce(p, 2, [type |-> "While", condition |-> Arg(p, 2, 1), body |-> Arg(p, 2, 2)])

parseWhile(toks, p) ==
  MakeWhile(parseBlock(toks, parseExpression(toks, expect(toks, p, "KEYWORD", <<"w", "h", "i", "l", "e">>))))

\* the optional step of a for loop
ForStep(toks, p) ==
  IF check(toks, p, "KEYWORD", <<"s", "t", "e", "p">>) THEN parseExpression(toks, advance(toks, p))
  ELSE Push(p, NoExpr)

MakeFor(p) ==
  Reduce(p, 5, [type |-> "For", variable |-> Arg(p, 5, 1), start |-> Arg(p, 5, 2),
                end |-> Arg(p, 5, 3), step |-> Arg(p, 5, 4), body |-> Arg(p, 5, 5)])

parseFor(toks, p) ==
  MakeFor(parseBlock(toks,
    ForStep(toks,
      parseExpression(toks, expect(toks,
        parseExpression(toks, expect(toks,
          take(toks, expect(toks, p, "KEYWORD", <<"f", "o", "r">>), "IDENTIFIER", <<>>),
          "SYMBOL", Sym("="))),
        "KEYWORD", <<"t", "o">>)))))

\* while (check('-') || check(IDENTIFIER)) source += advance().value; source is on top of out
RECURSIVE DashedName(_, _)
DashedName(toks, p) ==
  IF check(toks, p, "SYMBOL", Sym("-")) \/ check(toks, p, "IDENTIFIER", <<>>)
  THEN DashedName(toks, Reduce(advance(toks, p), 1, Arg(p, 1, 1) \o peek(toks, p, 0).value))
  ELSE p

\* ids and source on top of out become the items and the source of the import
ImportHead(hasItems, p) ==
  Reduce(p, 2, [source |-> Arg(p, 2, 2), hasItems |-> hasItems,
                items |-> IF hasItems THEN Arg(p, 2, 1) ELSE <<>>])

\* after 'from'
ImportFrom(toks, p) ==
  IF Ok(p) /\ peek(toks, p, 0).type = "STRING"
  THEN ImportHead(TRUE, Push(advance(toks, p), peek(toks, p, 0).value))
  ELSE ImportHead(TRUE, DashedName(toks, take(toks, p, "IDENTIFIER", <<>>)))

\* after the list of identifiers, which is on top of out; line is t.line
ImportIds(toks, p, line) ==
  IF ~Ok(p) THEN p
  ELSE IF check(toks, p, "KEYWORD", <<"f", "r", "o", "m">>) THEN ImportFrom(toks, advance(toks, p))
  ELSE IF Len(Arg(p, 1, 1)) = 1
  THEN ImportHead(FALSE, DashedName(toks, Push(p, Arg(p, 1, 1)[1])))
  ELSE Fail(p, "SyntaxError", line)

\* after 'import'
ImportSource(toks, p) ==
  IF ~Ok(p) THEN p
  ELSE IF peek(toks, p, 0).type = "undefined" THEN Fail(p, "TypeError", 0)
  ELSE IF peek(toks, p, 0).type = "STRING"
  THEN Push(advance(toks, p), [source |-> peek(toks, p, 0).value, hasItems |-> FALSE, items |-> <<>>])
  ELSE ImportIds(toks, KeyList(toks, p, 0), peek(toks, p, 0).line)

\* return { type: 'Import', source, items, alias }; a null alias is <<>>
MakeImport(p) ==
  Reduce(p, 2, [type |-> "Import", source |-> Arg(p, 2, 1).source, hasItems |-> Arg(p, 2, 1).hasItems,
                items |-> Arg(p, 2, 1).items, alias |-> Arg(p, 2, 2)])

ImportAlias(toks, p) ==
  IF check(toks, p, "KEYWORD", <<"a", "s">>)
  THEN MakeImport(take(toks, advance(toks, p), "IDENTIFIER", <<>>))
  ELSE MakeImport(Push(p, <<>>))

parseImport(toks, p) ==
  ImportAlias(toks, ImportSource(toks, expect(toks, p, "KEYWORD", <<"i", "m", "p", "o", "r", "t">>)))

MakePrint(p) == Reduce(p, 1, [type |-> "ConsolePrint", message |-> Arg(p, 1, 1)])

parseConsolePrint(toks, p) ==
  MakePrint(expect(toks,
    parseExpression(toks,
      expect(toks, expect(toks, expect(toks, expect(toks, p, "IDENTIFIER", K_console), "SYMBOL", Sym(".")),
                          "IDENTIFIER", K_print), "SYMBOL", Sym("("))),
    "SYMBOL", Sym(")")))

MakeAssignment(p) ==
  Reduce(p, 2, [type |-> "Assignment", identifier |-> Arg(p, 2, 1), value |-> Arg(p, 2, 2)])

parseAssignment(toks, p) ==
  MakeAssignment(parseExpression(toks, expect(toks, take(toks, p, "IDENTIFIER", <<>>), "SYMBOL", Sym("="))))

\* the optional (subTarget) of an action; a null subTarget is <<>>
ActionSub(toks, p) ==
  IF check(toks, p, "SYMBOL", Sym("("))
  THEN expect(toks, take(toks, advance(toks, p), "IDENTIFIER", <<>>), "SYMBOL", Sym(")"))
  ELSE Push(p, <<>>)

\* val = coords
CollectCoords(p, n) == Reduce(Collect(p, n), 1, Arr(Arg(Collect(p, n), 1, 1)))

\* the loop of the raw coordinates: pos = 1, 2, 3
RECURSIVE RawCoords(_, _, _)
RawCoord(toks, neg, p, n) ==
  IF Ok(p) /\ peek(toks, p, 0).type = "NUMBER"
  THEN RawCoords(toks,
                 Push(advance(toks, p),
                      NumMul(ParseFloat(peek(toks, p, 0).value), Num(IF neg THEN 0 - 1 ELSE 1))),
                 n + 1)
  ELSE CollectCoords(p, n)
RawCoords(toks, p, n) ==
  IF Ok(p) /\ (peek(toks, p, 0).type = "NUMBER" \/ peek(toks, p, 0).value \in {Sym("-"), Sym(",")})
  THEN IF check(toks, p, "SYMBOL", Sym(",")) THEN RawCoords(toks, advance(toks, p), n)
       ELSE RawCoord(toks, check(toks, p, "SYMBOL", Sym("-")), match(toks, p, "SYMBOL", Sym("-")), n)
  ELSE CollectCoords(p, n)

\* return { type: 'PropertyAssignment', objectName, subTarget, property, value }
MakeProperty(kind, p) ==
  Reduce(p, 4, [type |-> "PropertyAssignment", objectName |-> Arg(p, 4, 1), subTarget |-> Arg(p, 4, 2),
                property |-> Arg(p, 4, 3), valueKind |-> kind, value |-> Arg(p, 4, 4)])

\* after '=': raw coordinates if a number or '-' is followed by ','
ActionValue(toks, p) ==
  IF Ok(p) /\ (peek(toks, p, 0).type = "NUMBER" \/ peek(toks, p, 0).value = Sym("-"))
           /\ peek(toks, p, 1).value = Sym(",")
  THEN MakeProperty("array", RawCoords(toks, p, 0))
  ELSE MakeProperty("expr", parseExpression(toks, p))

\* exclusion = expect(IDENTIFIER).value, in its place under the n arguments
Exclude(p, n, id) == IF Ok(p) THEN [p EXCEPT !.out[Len(p.out) - n] = id] ELSE p

\* while (!check(')')) { not id | expression [,] }
RECURSIVE ActionArgs(_, _, _)
ActionArgs(toks, p, n) ==
  IF ~Ok(p) \/ check(toks, p, "SYMBOL", Sym(")")) THEN Collect(p, n)
  ELSE IF check(toks, p, "KEYWORD", <<"n", "o", "t">>)
  THEN ActionArgs(toks,
                  Exclude(expect(toks, advance(toks, p), "IDENTIFIER", <<>>), n, peek(toks, p, 1).value),
                  n)
  ELSE ActionArgs(toks, match(toks, parseExpression(toks, p), "SYMBOL", Sym(",")), n + 1)

\* return { type: 'MethodCall', objectName, method, args, exclusion }
MakeMethodCall(p) ==
  Reduce(p, 5, [type |-> "MethodCall", objectName |-> Arg(p, 5, 1), method |-> Arg(p, 5, 3),
                args |-> Arg(p, 5, 5), exclusion |-> Arg(p, 5, 4)])

\* after objectName[(subTarget)].propOrMethod
ActionBody(toks, p) ==
  IF ~Ok(p) THEN p
  ELSE IF check(toks, p, "SYMBOL", Sym("=")) THEN ActionValue(toks, advance(toks, p))
  ELSE IF check(toks, p, "SYMBOL", Sym("("))
  THEN MakeMethodCall(expect(toks, ActionArgs(toks, Push(advance(toks, p), <<>>), 0), "SYMBOL", Sym(")")))
  ELSE Fail(p, "ExpectedAssignmentOrCall", 0)

parseAction(toks, p) ==
  ActionBody(toks,
    take(toks,
      expect(toks, ActionSub(toks, take(toks, p, "IDENTIFIER", <<>>)), "SYMBOL", Sym(".")),
      "IDENTIFIER", <<>>))

StatementKeywords ==
  {<<"i", "m", "p", "o", "r", "t">>, <<"i", "f">>, <<"w", "h", "i", "l", "e">>, <<"f", "o", "r">>}

parseStatement(toks, p) ==
  IF ~Ok(p) THEN p
  ELSE IF peek(toks, p, 0).type = "undefined" THEN Fail(p, "TypeError", 0)
  ELSE IF peek(toks, p, 0).type = "KEYWORD" /\ peek(toks, p, 0).value \in StatementKeywords
  THEN CASE peek(toks, p, 0).value = <<"i", "m", "p", "o", "r", "t">> -> parseImport(toks, p)
         [] peek(toks, p, 0).value = <<"i", "f">> -> parseIf(toks, p)
         [] peek(toks, p, 0).value = <<"w", "h", "i", "l", "e">> -> parseWhile(toks, p)
         [] peek(toks, p, 0).value = <<"f", "o", "r">> -> parseFor(toks, p)
  ELSE IF peek(toks, p, 0).value = K_console /\ peek(toks, p, 1).type # "undefined"
                                             /\ peek(toks, p, 1).value = Sym(".")
  THEN parseConsolePrint(toks, p)
  ELSE IF peek(toks, p, 0).type = "IDENTIFIER" /\ peek(toks, p, 1).value = Sym("=")
  THEN parseAssignment(toks, p)
  ELSE IF peek(toks, p, 0).type = "IDENTIFIER" /\ peek(toks, p, 1).value \in {Sym("("), Sym(".")}
  THEN parseAction(toks, p)
  ELSE Fail(p, "UnexpectedToken", peek(toks, p, 0).line)

\* while (peek().type !== EOF) statements.push(parseStatement())
RECURSIVE parseProgram(_, _, _)
parseProgram(toks, p, n) ==
  IF ~Ok(p) \/ peek(toks, p, 0).type = "EOF" THEN Collect(p, n)
  ELSE parseProgram(toks, parseStatement(toks, p), n + 1)

\* what parse returns or throws
Parsed(p) ==
  [ok |-> Ok(p), error |-> p.err, line |-> p.line,
   statements |-> IF Ok(p) THEN p.out[1] ELSE <<>>]

parse(tokens) == Parsed(parseProgram(tokens, PStart, 0))

(***************************************************************************)
(* The programs handed to interpret: each is written as source text and    *)
(* read by tokenize and parse.                                             *)
(***************************************************************************)
\* one statement each: a cube of 8 vertices assigned to a and to b, a cube of 2
\* vertices, b = a, a group, a position, a rotation without its angle, a print
SceneSources ==
  <<<<"a", " ", "=", " ", "c", "u", "b", "e", "(", "\"", "0", ",", "0", ",", "0", "\"", ":", "\"", "1",
     ",", "0", ",", "0", "\"", ":", "\"", "1", ",", "1", ",", "0", "\"", ":", "\"", "0", ",", "1",
     ",", "0", "\"", ":", "\"", "0", ",", "0", ",", "1", "\"", ":", "\"", "1", ",", "0", ",", "1",
     "\"", ":", "\"", "1", ",", "1", ",", "1", "\"", ":", "\"", "0", ",", "1", ",", "1", "\"", ")">>,
   <<"b", " ", "=", " ", "c", "u", "b", "e", "(", "\"", "0", ",", "0", ",", "0", "\"", ":", "\"", "1",
     ",", "0", ",", "0", "\"", ":", "\"", "1", ",", "1", ",", "0", "\"", ":", "\"", "0", ",", "1",
     ",", "0", "\"", ":", "\"", "0", ",", "0", ",", "1", "\"", ":", "\"", "1", ",", "0", ",", "1",
     "\"", ":", "\"", "1", ",", "1", ",", "1", "\"", ":", "\"", "0", ",", "1", ",", "1", "\"", ")">>,
   <<"a", " ", "=", " ", "c", "u", "b", "e", "(", "\"", "0", ",", "0", ",", "0", "\"", ":", "\"", "1",
     ",", "0", ",", "0", "\"", ")">>,
   <<"b", " ", "=", " ", "a">>,
   <<"g", "r", "p", " ", "=", " ", "g", "r", "o", "u", "p", "[", "a", ",", "b", "]">>,
   <<"a", ".", "p", "o", "s", " ", "=", " ", "1", ",", "2", ",", "3">>,
   <<"a", ".", "r", "o", "t", "a", "t", "e", "(", ")">>,
   <<"c", "o", "n", "s", "o", "l", "e", ".", "p", "r", "i", "n", "t", "(", "\"", "o", "k", "\"", ")">>>>

\* m = mesh { vertices = [0,0,0; 1,0,0;] faces = [0 : nomat; 1 : a; 0; 1 : lib.x;] }
MeshFacesSource ==
  <<"m", " ", "=", " ", "m", "e", "s", "h", " ", "{", " ", "v", "e", "r", "t", "i", "c", "e", "s",
    " ", "=", " ", "[", "0", ",", "0", ",", "0", ";", " ", "1", ",", "0", ",", "0", ";", "]", " ",
    "f", "a", "c", "e", "s", " ", "=", " ", "[", "0", " ", ":", " ", "n", "o", "m", "a", "t", ";",
    " ", "1", " ", ":", " ", "a", ";", " ", "0", ";", " ", "1", " ", ":", " ", "l", "i", "b", ".",
    "x", ";", "]", " ", "}">>

\* statements of the programs that are written out one by one:
\* b.pos = a(1, 1, 1); the mesh of four faces;
\* m = mesh { faces = [0 : toString;] }; grp = group[a];
\* c = modifier.translate { base = a x = 1 }; c.pos = 4,5,6; c.rotate(90);
\* c.move(1, 0, 0); c = modifier.pyramid { base = a height = 2 }
MoreSources ==
  <<<<"b", ".", "p", "o", "s", " ", "=", " ", "a", "(", "1", ",", " ", "1", ",", " ", "1", ")">>,
    MeshFacesSource,
    <<"m", " ", "=", " ", "m", "e", "s", "h", " ", "{", " ", "f", "a", "c", "e", "s", " ", "=", " ",
      "[", "0", " ", ":", " ", "t", "o", "S", "t", "r", "i", "n", "g", ";", "]", " ", "}">>,
    <<"g", "r", "p", " ", "=", " ", "g", "r", "o", "u", "p", "[", "a", "]">>,
    <<"c", " ", "=", " ", "m", "o", "d", "i", "f", "i", "e", "r", ".", "t", "r", "a", "n", "s", "l",
      "a", "t", "e", " ", "{", " ", "b", "a", "s", "e", " ", "=", " ", "a", " ", "x", " ", "=", " ",
      "1", " ", "}">>,
    <<"c", ".", "p", "o", "s", " ", "=", " ", "4", ",", "5", ",", "6">>,
    <<"c", ".", "r", "o", "t", "a", "t", "e", "(", "9", "0", ")">>,
    <<"c", ".", "m", "o", "v", "e", "(", "1", ",", " ", "0", ",", " ", "0", ")">>,
    <<"c", " ", "=", " ", "m", "o", "d", "i", "f", "i", "e", "r", ".", "p", "y", "r", "a", "m", "i",
      "d", " ", "{", " ", "b", "a", "s", "e", " ", "=", " ", "a", " ", "h", "e", "i", "g", "h", "t",
      " ", "=", " ", "2", " ", "}">>>>

ParseSource(src) == parse(tokenize(src))
SceneStatements ==
  [i \in 1..Len(SceneSources \o MoreSources) |-> ParseSource((SceneSources \o MoreSources)[i]).statements[1]]

MaxLen == 3

RECURSIVE SeqsUpTo(_, _)
SeqsUpTo(S, n) ==
  IF n = 0 THEN {<<>>}
  ELSE LET shorter == SeqsUpTo(S, n - 1)
       IN shorter \cup {Append(q, x) : q \in {r \in shorter : Len(r) = n - 1}, x \in S}

\* a = cube8, b = cube8, grp = group[a,b], a.pos = 1,2,3, a = cube8
RewiredProgram == <<1, 2, 5, 6, 1>>
\* a = cube8, b = cube8, a.pos = 1,2,3, b.pos = a(1, 1, 1)
RelativeProgram == <<1, 2, 6, 9>>
\* a = cube8, the mesh of four faces, console.print("ok")
MeshFacesProgram == <<1, 10, 8>>
\* the mesh whose face names toString, console.print("ok")
InheritedMaterialProgram == <<11, 8>>
\* a = cube8, b = cube8, grp = group[a,b], grp = group[a]
RegroupProgram == <<1, 2, 5, 12>>
\* a = cube8, b = cube8, grp = group[a,b], c = the clone of a moved by 1
CloneProgram == <<1, 2, 5, 13>>
\* a = cube8, b = cube8, grp = group[a,b], a.pos = 1,2,3, c = the clone of a
\* moved by 1, c.pos = 4,5,6, c.rotate(90), c.move(1, 0, 0)
ModifyProgram == <<1, 2, 5, 6, 13, 14, 15, 16>>
\* a = cube8, a.pos = 1,2,3, c = the pyramid on a, c.move(1, 0, 0)
PyramidProgram == <<1, 6, 17, 16>>
MorePrograms ==
  {RelativeProgram, MeshFacesProgram, InheritedMaterialProgram, RegroupProgram, CloneProgram,
   ModifyProgram, PyramidProgram}
ScenePrograms == SeqsUpTo(1..Len(SceneSources), MaxLen) \cup {RewiredProgram} \cup MorePrograms

NoResult == [sceneGraph |-> <<>>, logs |-> <<>>, errors |-> <<>>, scope |-> <<>>]
NoTasks == <<>>

\* interpret(ast, modules): the state when the forEach over ast.statements starts
InterpretInit(stmts, modules, h) ==
  /\ heap = h
  /\ scope = SeedScope(modules)
  /\ sceneGraph = <<>>
  /\ logs = <<>>
  /\ errors = <<>>
  /\ ctl = <<BlockFrame(stmts)>>
  /\ started = <<>>
  /\ thrown = 0
  /\ iters = 0
  /\ program = stmts
  /\ mode = "run"

LoaderUnused ==
  /\ tasks = NoTasks
  /\ libraryCache = <<>>
  /\ fetches = <<>>
  /\ fileSystem = <<>>
  /\ owner = 0
  /\ lexer = NoScan
  /\ runs = <<>>

Init ==
  /\ \E q \in ScenePrograms : InterpretInit([i \in 1..Len(q) |-> SceneStatements[q[i]]], <<>>, <<>>)
  /\ LoaderUnused

Next == ExecSimple \/ BlockEnd

Spec == Init /\ [][Next]_vars

(***************************************************************************)
(* Programs with control flow                                              *)
(***************************************************************************)
WhileTrueSource ==
  <<"w", "h", "i", "l", "e", " ", "1", " ", "=", "=", " ", "1", " ", "{", " ", "}", " ", "c", "o", "n", "s", "o", "l", "e", ".", "p", "r", "i", "n", "t", "(", "\"", "a", "f", "t", "e", "r", "\"", ")">>
CountingSource ==
  <<"n", " ", "=", " ", "0", " ", "w", "h", "i", "l", "e", " ", "n", " ", "<", " ", "3", " ", "{", " ", "n", " ", "=", " ", "n", " ", "+", " ", "1", " ", "}", " ", "c", "o", "n", "s", "o", "l", "e", ".", "p", "r", "i", "n", "t", "(", "n", ")">>
IfElseSource ==
  <<"i", "f", " ", "1", " ", "=", "=", " ", "2", " ", "{", " ", "c", "o", "n", "s", "o", "l", "e", ".", "p", "r", "i", "n", "t", "(", "\"", "t", "\"", ")", " ", "}", " ", "e", "l", "s", "e", " ", "{", " ", "c", "o", "n", "s", "o", "l", "e", ".", "p", "r", "i", "n", "t", "(", "\"", "e", "\"", ")", " ", "}">>

\* a loop whose body lowers the variable of its bound
\* n = 3 for i = 1 to n { n = 1 }
ForBoundSource ==
  <<"n", " ", "=", " ", "3", " ", "f", "o", "r", " ", "i", " ", "=", " ", "1", " ", "t", "o", " ",
    "n", " ", "{", " ", "n", " ", "=", " ", "1", " ", "}">>

\* for i = <start> to <end> { console.print(i) }; a negative bound is written -n
ForSource(start, end) ==
  <<"f", "o", "r", " ", "i", " ", "=", " ">> \o IntToString(start) \o <<" ", "t", "o", " ">>
    \o IntToString(end) \o <<" ", "{", " ">> \o K_console \o <<".">> \o K_print \o <<"(", "i", ")", " ", "}">>

\* loops that end by themselves after as many iterations as the cap allows:
\* for i = 1 to 10000 { } and n = 0 while n < 10000 { n = n + 1 }
FullRangeSource ==
  <<"f", "o", "r", " ", "i", " ", "=", " ", "1", " ", "t", "o", " ">> \o IntToString(LoopCap)
    \o <<" ", "{", " ", "}">>
FullCountSource ==
  <<"n", " ", "=", " ", "0", " ", "w", "h", "i", "l", "e", " ", "n", " ", "<", " ">>
    \o IntToString(LoopCap) \o <<" ", "{", " ", "n", " ", "=", " ", "n", " ", "+", " ", "1", " ", "}">>

\* a statement that throws, in the body of a for, of a while and of an if
\* a = mesh { } for i = 1 to 2 { a.rotate() console.print(i) } n = 0 while n < 2 { n = n + 1 a.rotate() console.print(n) } if 1 == 1 { a.rotate() console.print("t") }
NestedFailSource ==
  <<"a", " ", "=", " ", "m", "e", "s", "h", " ", "{", " ", "}", " ", "f", "o", "r", " ", "i", " ",
    "=", " ", "1", " ", "t", "o", " ", "2", " ", "{", " ", "a", ".", "r", "o", "t", "a", "t", "e",
    "(", ")", " ", "c", "o", "n", "s", "o", "l", "e", ".", "p", "r", "i", "n", "t", "(", "i", ")",
    " ", "}", " ", "n", " ", "=", " ", "0", " ", "w", "h", "i", "l", "e", " ", "n", " ", "<", " ",
    "2", " ", "{", " ", "n", " ", "=", " ", "n", " ", "+", " ", "1", " ", "a", ".", "r", "o", "t",
    "a", "t", "e", "(", ")", " ", "c", "o", "n", "s", "o", "l", "e", ".", "p", "r", "i", "n", "t",
    "(", "n", ")", " ", "}", " ", "i", "f", " ", "1", " ", "=", "=", " ", "1", " ", "{", " ", "a",
    ".", "r", "o", "t", "a", "t", "e", "(", ")", " ", "c", "o", "n", "s", "o", "l", "e", ".", "p",
    "r", "i", "n", "t", "(", "\"", "t", "\"", ")", " ", "}">>


MinStart == 0 - 1
MaxEnd == 3
ForRanges == {r \in (MinStart..MaxEnd) \X (MinStart..MaxEnd) : r[1] <= r[2]}

LoopSources ==
  {WhileTrueSource, CountingSource, IfElseSource, ForBoundSource, FullRangeSource, FullCountSource,
   NestedFailSource} \cup {ForSource(r[1], r[2]) : r \in ForRanges}

LoopInit ==
  /\ \E src \in LoopSources : InterpretInit(ParseSource(src).statements, <<>>, <<>>)
  /\ LoaderUnused

LoopNext == ExecSimple \/ EnterIf \/ EnterWhile \/ WhileHead \/ EnterFor \/ ForHead \/ BlockEnd

LoopSpec == LoopInit /\ [][LoopNext]_vars


(***************************************************************************)
(* The invocations of compile: root sources with their file tables         *)
(***************************************************************************)
\* the mesh program with a ; after each closing ]
\* a = mesh{ vertices=[0,0,0;1,0,0;1,1,0;]; faces=[0,1,2;]; } console.print("ok")
MeshSemicolonSource ==
  <<"a", " ", "=", " ", "m", "e", "s", "h", "{", " ", "v", "e", "r", "t", "i", "c", "e", "s", "=",
    "[", "0", ",", "0", ",", "0", ";", "1", ",", "0", ",", "0", ";", "1", ",", "1", ",", "0", ";",
    "]", ";", " ", "f", "a", "c", "e", "s", "=", "[", "0", ",", "1", ",", "2", ";", "]", ";", " ",
    "}", " ", "c", "o", "n", "s", "o", "l", "e", ".", "p", "r", "i", "n", "t", "(", "\"", "o", "k",
    "\"", ")">>
\* the same program without them
\* a = mesh{ vertices=[0,0,0;1,0,0;1,1,0;] faces=[0,1,2;] } console.print("ok")
MeshSource ==
  <<"a", " ", "=", " ", "m", "e", "s", "h", "{", " ", "v", "e", "r", "t", "i", "c", "e", "s", "=",
    "[", "0", ",", "0", ",", "0", ";", "1", ",", "0", ",", "0", ";", "1", ",", "1", ",", "0", ";",
    "]", " ", "f", "a", "c", "e", "s", "=", "[", "0", ",", "1", ",", "2", ";", "]", " ", "}", " ",
    "c", "o", "n", "s", "o", "l", "e", ".", "p", "r", "i", "n", "t", "(", "\"", "o", "k", "\"",
    ")">>
\* two imports of one URL
\* import "http://u" as m import "http://u" as n
UrlTwiceSource ==
  <<"i", "m", "p", "o", "r", "t", " ", "\"", "h", "t", "t", "p", ":", "/", "/", "u", "\"", " ",
    "a", "s", " ", "m", " ", "i", "m", "p", "o", "r", "t", " ", "\"", "h", "t", "t", "p", ":", "/",
    "/", "u", "\"", " ", "a", "s", " ", "n">>
\* one import of the same URL
\* import "http://u" as m
UrlSource ==
  <<"i", "m", "p", "o", "r", "t", " ", "\"", "h", "t", "t", "p", ":", "/", "/", "u", "\"", " ",
    "a", "s", " ", "m">>
\* a root whose import leads into a cycle of files
\* import a
CycleRootSource ==
  <<"i", "m", "p", "o", "r", "t", " ", "a">>
\* import b
FileASource ==
  <<"i", "m", "p", "o", "r", "t", " ", "b">>
\* import local@a
FileBSource ==
  <<"i", "m", "p", "o", "r", "t", " ", "l", "o", "c", "a", "l", "@", "a">>
\* a root that imports from a module in the three ways
\* import n, b from lib import lib as m import ok from lib as fine console.print(n)
LibRootSource ==
  <<"i", "m", "p", "o", "r", "t", " ", "n", ",", " ", "b", " ", "f", "r", "o", "m", " ", "l", "i",
    "b", " ", "i", "m", "p", "o", "r", "t", " ", "l", "i", "b", " ", "a", "s", " ", "m", " ", "i",
    "m", "p", "o", "r", "t", " ", "o", "k", " ", "f", "r", "o", "m", " ", "l", "i", "b", " ", "a",
    "s", " ", "f", "i", "n", "e", " ", "c", "o", "n", "s", "o", "l", "e", ".", "p", "r", "i", "n",
    "t", "(", "n", ")">>
\* n = 0 while n < 2 { n = n + 1 } for i = 1 to 2 { n = n + i } if n == 5 { ok = 1 } b = cube...
LibSource ==
  <<"n", " ", "=", " ", "0", " ", "w", "h", "i", "l", "e", " ", "n", " ", "<", " ", "2", " ", "{",
    " ", "n", " ", "=", " ", "n", " ", "+", " ", "1", " ", "}", " ", "f", "o", "r", " ", "i", " ",
    "=", " ", "1", " ", "t", "o", " ", "2", " ", "{", " ", "n", " ", "=", " ", "n", " ", "+", " ",
    "i", " ", "}", " ", "i", "f", " ", "n", " ", "=", "=", " ", "5", " ", "{", " ", "o", "k", " ",
    "=", " ", "1", " ", "}", " ", "b", " ", "=", " ", "c", "u", "b", "e", "(", "\"", "0", ",", "0",
    ",", "0", "\"", ":", "\"", "1", ",", "0", ",", "0", "\"", ":", "\"", "1", ",", "1", ",", "0",
    "\"", ":", "\"", "0", ",", "1", ",", "0", "\"", ":", "\"", "0", ",", "0", ",", "1", "\"", ":",
    "\"", "1", ",", "0", ",", "1", "\"", ":", "\"", "1", ",", "1", ",", "1", "\"", ":", "\"", "0",
    ",", "1", ",", "1", "\"", ")">>
\* imports of names that no file of the table has
\* import nothing as n console.print("after")
MissingSource ==
  <<"i", "m", "p", "o", "r", "t", " ", "n", "o", "t", "h", "i", "n", "g", " ", "a", "s", " ", "n",
    " ", "c", "o", "n", "s", "o", "l", "e", ".", "p", "r", "i", "n", "t", "(", "\"", "a", "f", "t",
    "e", "r", "\"", ")">>
\* import nothing console.print("after")
MissingBareSource ==
  <<"i", "m", "p", "o", "r", "t", " ", "n", "o", "t", "h", "i", "n", "g", " ", "c", "o", "n", "s",
    "o", "l", "e", ".", "p", "r", "i", "n", "t", "(", "\"", "a", "f", "t", "e", "r", "\"", ")">>
\* import constructor as c console.print("after")
ConstructorSource ==
  <<"i", "m", "p", "o", "r", "t", " ", "c", "o", "n", "s", "t", "r", "u", "c", "t", "o", "r", " ",
    "a", "s", " ", "c", " ", "c", "o", "n", "s", "o", "l", "e", ".", "p", "r", "i", "n", "t", "(",
    "\"", "a", "f", "t", "e", "r", "\"", ")">>
\* import toString as t console.print("after")
ToStringSource ==
  <<"i", "m", "p", "o", "r", "t", " ", "t", "o", "S", "t", "r", "i", "n", "g", " ", "a", "s", " ",
    "t", " ", "c", "o", "n", "s", "o", "l", "e", ".", "p", "r", "i", "n", "t", "(", "\"", "a", "f",
    "t", "e", "r", "\"", ")">>

CycleFiles ==
  (<<"a", ".", "k", "l", "a", "n", "g">> :> Str(FileASource)) @@ (<<"l", "o", "c", "a", "l", "/", "b", ".", "k", "l", "a", "n", "g">> :> Str(FileBSource))
LibFiles == (<<"l", "i", "b", ".", "k", "l", "a", "n", "g">> :> Str(LibSource))
NoFiles == <<>>

\* an import of the URL with a statement after it
\* import "http://u" as m console.print("after")
UrlAfterSource ==
  <<"i", "m", "p", "o", "r", "t", " ", "\"", "h", "t", "t", "p", ":", "/", "/", "u", "\"", " ",
    "a", "s", " ", "m", " ", "c", "o", "n", "s", "o", "l", "e", ".", "p", "r", "i", "n", "t", "(",
    "\"", "a", "f", "t", "e", "r", "\"", ")">>

\* a statement, and one that breaks off
\* console.print("ok") a = 
PartialSource ==
  <<"c", "o", "n", "s", "o", "l", "e", ".", "p", "r", "i", "n", "t", "(", "\"", "o", "k", "\"",
    ")", " ", "a", " ", "=", " ">>

\* a member of an object, neither assigned nor called
ActionSource ==
  <<"a", ".", "b">>


\* an import of one name with a statement after it
\* import n from lib console.print(n)
ItemsThenSource ==
  <<"i", "m", "p", "o", "r", "t", " ", "n", " ", "f", "r", "o", "m", " ", "l", "i", "b", " ", "c",
    "o", "n", "s", "o", "l", "e", ".", "p", "r", "i", "n", "t", "(", "n", ")">>


\* an import of a whole module under an alias
\* import lib as m
AliasSource ==
  <<"i", "m", "p", "o", "r", "t", " ", "l", "i", "b", " ", "a", "s", " ", "m">>


\* a table in which the raw name holds an empty text: lib is "", lib.klang is "x = 1"
EmptyFirstFiles ==
  (<<"l", "i", "b">> :> Str(<<>>)) @@ (<<"l", "i", "b", ".", "k", "l", "a", "n", "g">> :> Str(<<"x", " ", "=", " ", "1">>))

\* a call of a built-in coercion
\* console.print(int(5))
CoerceSource ==
  <<"c", "o", "n", "s", "o", "l", "e", ".", "p", "r", "i", "n", "t", "(", "i", "n", "t", "(", "5",
    ")", ")">>


\* a call of a function that the module object has
\* import lib as m console.print(m.toString())
CallSource ==
  <<"i", "m", "p", "o", "r", "t", " ", "l", "i", "b", " ", "a", "s", " ", "m", " ", "c", "o", "n",
    "s", "o", "l", "e", ".", "p", "r", "i", "n", "t", "(", "m", ".", "t", "o", "S", "t", "r", "i",
    "n", "g", "(", ")", ")">>

\* a bare import with an assignment after it
\* import lib a = 1
BareAssignSource ==
  <<"i", "m", "p", "o", "r", "t", " ", "l", "i", "b", " ", "a", " ", "=", " ", "1">>

\* a root whose module imports a module that does not parse
\* import mid as m console.print("after")
TransitiveSource ==
  <<"i", "m", "p", "o", "r", "t", " ", "m", "i", "d", " ", "a", "s", " ", "m", " ", "c", "o", "n",
    "s", "o", "l", "e", ".", "p", "r", "i", "n", "t", "(", "\"", "a", "f", "t", "e", "r", "\"", ")">>
\* import bad as b x = 1
MidSource ==
  <<"i", "m", "p", "o", "r", "t", " ", "b", "a", "d", " ", "a", "s", " ", "b", " ", "x", " ", "=",
    " ", "1">>
\* a =
BrokenSource == <<"a", " ", "=">>
BrokenFiles ==
  (<<"m", "i", "d", ".", "k", "l", "a", "n", "g">> :> Str(MidSource)) @@
  (<<"b", "a", "d", ".", "k", "l", "a", "n", "g">> :> Str(BrokenSource))

\* a position whose first, or second, component is negative
\* a = mesh { } a.pos = -1,2,3
NegativeFirstSource ==
  <<"a", " ", "=", " ", "m", "e", "s", "h", " ", "{", " ", "}", " ", "a", ".", "p", "o", "s", " ",
    "=", " ", "-", "1", ",", "2", ",", "3">>

\* a = mesh { } a.pos = 1,-2,3
NegativeSecondSource ==
  <<"a", " ", "=", " ", "m", "e", "s", "h", " ", "{", " ", "}", " ", "a", ".", "p", "o", "s", " ",
    "=", " ", "1", ",", "-", "2", ",", "3">>


Urls == {<<"h", "t", "t", "p", ":", "/", "/", "u">>}
RootSources ==
  {MeshSemicolonSource, MeshSource, UrlTwiceSource, UrlSource, CycleRootSource, LibRootSource,
   MissingSource, MissingBareSource, ConstructorSource, ToStringSource, UrlAfterSource,
   PartialSource, ActionSource, ItemsThenSource,
   AliasSource, CoerceSource, CallSource, BareAssignSource, TransitiveSource,
   NegativeFirstSource, NegativeSecondSource}

(***************************************************************************)
(* compile: the module loader.  A task is one invocation of compile by the *)
(* application; its stack holds the activations of compile, the recursive  *)
(* ones above their callers.  pc of an activation is where it stands:      *)
(* "loop" in the for over imports, "fetch" and "text" at the two awaits of *)
(* a cloud import, "call" before compile(modSource, ...).  Activations of  *)
(* different tasks interleave at the awaits only, and interpret runs       *)
(* without interruption: the loader moves only while mode is "idle".       *)
(***************************************************************************)
\* The activations the model keeps per task; a deeper recursion forgets its
\* oldest activation, which a recursion that never returns never resumes.
MaxDepth == 3
\* The invocations of compile that may overlap
NTasks == 2

\* What handleRun has last passed to setResult: the initial state of the
\* application, and the state while compile is awaited
Blank == [sceneGraph |-> <<>>, logs |-> <<>>, errors |-> <<>>]
Compiling ==
  [sceneGraph |-> <<>>, logs |-> <<<<"C", "o", "m", "p", "i", "l", "i", "n", "g", ".", ".", ".">>>>,
   errors |-> <<>>]

Task(src) ==
  [status |-> "idle", src |-> src, stack |-> <<>>, dropped |-> FALSE, error |-> "",
   result |-> NoResult, awaiting |-> FALSE, shown |-> Blank, responses |-> <<>>]

\* handleRun up to await compile(codeToRun, files)
Run(task) ==
  IF task.status = "idle" THEN [task EXCEPT !.awaiting = TRUE, !.shown = Compiling] ELSE task

\* a fallback that lacks its closing quote and parenthesis
FallbackUnclosed(source) == Str(K_failedToLoad \o source)

\* modSource = `console.print("Failed to load ${imp.source}")`
Fallback(source) == Str(K_failedToLoad \o source \o K_failedTail)

\* what a server may send: nothing, a module, or a text that does not parse
Bodies == {<<>>, <<"x", " ", "=", " ", "1">>, BrokenSource}

\* The texts that compile can be handed: the roots, the files, what a server
\* may send and the fallbacks; each is tokenized and parsed once, and Read
\* looks the outcome up.
Texts ==
  RootSources \cup {f.s : f \in Range(CycleFiles) \cup Range(LibFiles) \cup Range(BrokenFiles)} \cup Bodies
    \cup {Fallback(u).s : u \in Urls}
Readings == {[text |-> s, ast |-> parse(tokenize(s))] : s \in Texts}
Read(text) ==
  IF text \in Texts THEN (CHOOSE r \in Readings : r.text = text).ast ELSE parse(tokenize(text))

\* tokenize(sourceCode) and parse(tokens) of an activation.  A file-table
\* lookup can yield a function inherited from Object.prototype: tokenize reads
\* its length, and with a positive length calls source.slice, which throws.
Parse(sourceCode) ==
  IF sourceCode.t = "fun"
  THEN IF FunLength(sourceCode) > 0
       THEN [ok |-> FALSE, error |-> "TypeError", line |-> 0, statements |-> <<>>]
       ELSE parse(<<Token("EOF", <<>>, 1)>>)
  ELSE Read(sourceCode.s)

IsImport(s) == s.type = "Import"

\* the locals of compile when its loop over the imports starts
Activation(ast) ==
  [ast |-> ast.statements, imports |-> SelectSeq(ast.statements, IsImport), i |-> 1,
   modules |-> <<>>, modSource |-> Str(<<>>), pc |-> "loop"]

PushActivation(stack, a) ==
  IF Len(stack) < MaxDepth THEN Append(stack, a) ELSE Append(Tail(stack), a)

\* an imported module that does not parse is taken as an empty module
EnteredLenient(task, ast) ==
  IF ~ast.ok /\ task.stack = <<>>
  THEN [task EXCEPT !.status = "rejected", !.error = ast.error, !.stack = <<>>]
  ELSE [task EXCEPT !.status = "running",
                    !.stack = PushActivation(task.stack, Activation(ast)),
                    !.dropped = task.dropped \/ Len(task.stack) >= MaxDepth]
\* compile is entered with ast the outcome of Parse: a throw rejects the
\* promise of this activation, and with it those of all its awaiting callers
Entered(task, ast) ==
  IF ~ast.ok
  THEN [task EXCEPT !.status = "rejected", !.error = ast.error, !.stack = <<>>]
  ELSE [task EXCEPT !.status = "running",
                    !.stack = PushActivation(task.stack, Activation(ast)),
                    !.dropped = task.dropped \/ Len(task.stack) >= MaxDepth]

\* the activation of compile that task t is in, and the import of its loop
Act(t) == tasks[t].stack[Len(tasks[t].stack)]
Imp(t) == Act(t).imports[Act(t).i]
At(t, pc) ==
  /\ mode = "idle" /\ tasks[t].status = "running" /\ tasks[t].stack # <<>>
  /\ Act(t).pc = pc
\* the activation goes on as a
Becomes(t, a) ==
  tasks' = [tasks EXCEPT ![t] = [tasks[t] EXCEPT !.stack = [tasks[t].stack EXCEPT ![Len(tasks[t].stack)] = a]]]

\* the same, the network having answered a fetch of the task with response
FetchFailed == [t |-> "failed"]
BecomesAnswered(t, a, response) ==
  tasks' = [tasks EXCEPT ![t] =
    [tasks[t] EXCEPT !.stack = [tasks[t].stack EXCEPT ![Len(tasks[t].stack)] = a],
                     !.responses = Append(tasks[t].responses, response)]]

\* the source compile is about to be called with: the root source of a task
\* not yet started, or modSource of the activation on top
Pending(t) == IF tasks[t].status = "idle" THEN Str(tasks[t].src) ELSE Act(t).modSource

\* compile(sourceCode, fileSystem): by the application, or by
\* await compile(modSource, fileSystem, imp.source)
Compile(t) ==
  /\ mode = "idle"
  /\ tasks[t].status = "idle" \/ At(t, "call")
  /\ tasks' = [tasks EXCEPT ![t] = Entered(Run(tasks[t]), Parse(Pending(t)))]
  /\ UNCHANGED <<ivars, libraryCache, fetches, fileSystem, lexer, runs, owner>>

\* compile calls itself before its first await when the import is a local
\* file, so a chain of local imports is a chain of frames on the call stack.
\* The language sets no limit to it; an engine ends a chain longer than its
\* stack with a RangeError thrown in the deepest activation, which rejects the
\* promise of every activation under it.  Where the limit lies is the
\* engine's choice: beyond the activations the model keeps, the recursion
\* may go on or end this way.
StackExhausted(t) ==
  /\ At(t, "call") /\ tasks[t].dropped
  /\ tasks' = [tasks EXCEPT ![t] = [tasks[t] EXCEPT !.status = "rejected", !.error = "RangeError",
                                                    !.stack = <<>>]]
  /\ UNCHANGED <<ivars, libraryCache, fetches, fileSystem, lexer, runs, owner>>

\* if (modSource) { await compile(...) ... }: an empty modSource goes on with
\* the next import
Resolved(a, modSource) ==
  IF Truthy(modSource) THEN [a EXCEPT !.modSource = modSource, !.pc = "call"]
  ELSE [a EXCEPT !.i = a.i + 1, !.pc = "loop"]

\* the first index from i on where pat occurs in s (0 if none)
RECURSIVE IndexOf(_, _, _)
IndexOf(s, pat, i) ==
  IF i + Len(pat) - 1 > Len(s) THEN 0
  ELSE IF SubSeq(s, i, i + Len(pat) - 1) = pat THEN i
  ELSE IndexOf(s, pat, i + 1)

\* s.replace(pat, '')
Removed(s, pat, at) ==
  IF at = 0 THEN s ELSE SubSeq(s, 1, at - 1) \o SubSeq(s, at + Len(pat), Len(s))
cleanName(source) == Removed(source, K_localAt, IndexOf(source, K_localAt, 1))

possiblePaths(source) ==
  <<source, cleanName(source) \o K_dotKlang, K_localSlash \o cleanName(source) \o K_dotKlang>>

\* for (const p of possiblePaths) if (fileSystem[p]) { modSource = fileSystem[p]; break }
RECURSIVE LocalSource(_, _, _)
LocalSource(fs, paths, i) ==
  IF i > Len(paths) THEN Str(<<>>)
  ELSE IF Truthy(Get(fs, paths[i])) THEN Get(fs, paths[i])
  ELSE LocalSource(fs, paths, i + 1)

startsWithHttp(source) == Len(source) >= 4 /\ SubSeq(source, 1, 4) = K_http

\* one import of the loop, up to its first await: the cache is looked up and
\* the fetch is started in the same turn
ResolveImport(t) ==
  /\ At(t, "loop") /\ Act(t).i <= Len(Act(t).imports)
  /\ IF startsWithHttp(Imp(t).source)
     THEN IF Truthy(Get(libraryCache, Imp(t).source))
          THEN /\ Becomes(t, Resolved(Act(t), Get(libraryCache, Imp(t).source)))
               /\ fetches' = fetches
          ELSE /\ Becomes(t, [Act(t) EXCEPT !.pc = "fetch"])
               /\ fetches' = Append(fetches, Imp(t).source)
     ELSE /\ Becomes(t, Resolved(Act(t), LocalSource(fileSystem, possiblePaths(Imp(t).source), 1)))
          /\ fetches' = fetches
  /\ UNCHANGED <<ivars, libraryCache, fileSystem, lexer, runs, owner>>

\* await fetch(imp.source) is over: the response is ok, or it is not or the
\* fetch has failed, and the catch substitutes the fallback
FetchReturns(t) ==
  /\ At(t, "fetch")
  /\ \E ok \in BOOLEAN :
       IF ok THEN Becomes(t, [Act(t) EXCEPT !.pc = "text"])
       ELSE BecomesAnswered(t, Resolved(Act(t), Fallback(Imp(t).source)), FetchFailed)
  /\ UNCHANGED <<ivars, libraryCache, fetches, fileSystem, lexer, runs, owner>>

\* await resp.text() is over: libraryCache[imp.source] = modSource
TextReturns(t) ==
  /\ At(t, "text")
  /\ \E body \in Bodies :
       /\ BecomesAnswered(t, Resolved(Act(t), Str(body)), Str(body))
       /\ libraryCache' = Put(libraryCache, Imp(t).source, Str(body))
  /\ UNCHANGED <<ivars, fetches, fileSystem, lexer, runs, owner>>

\* return interpret(ast, modules), up to the forEach over the statements
BeginInterpret(t) ==
  /\ At(t, "loop") /\ Act(t).i > Len(Act(t).imports)
  /\ scope' = SeedScope(Act(t).modules)
  /\ sceneGraph' = <<>>
  /\ logs' = <<>>
  /\ errors' = <<>>
  /\ ctl' = <<BlockFrame(Act(t).ast)>>
  /\ started' = <<>>
  /\ thrown' = 0
  /\ iters' = 0
  /\ program' = Act(t).ast
  /\ mode' = "run"
  /\ owner' = t
  /\ UNCHANGED <<heap, tasks, libraryCache, fetches, fileSystem, lexer, runs>>

\* modules[itemName] = modScope[itemName] for each item that is not undefined
RECURSIVE BindItems(_, _, _, _)
BindItems(modules, items, modScope, i) ==
  IF i > Len(items) THEN modules
  ELSE BindItems(IF Get(modScope, items[i]).t # "undef"
                 THEN Put(modules, items[i], Get(modScope, items[i])) ELSE modules,
                 items, modScope, i + 1)

\* what the import imp puts in modules: modScope is the scope the module's
\* compile returned and ref the reference to it
Bind(modules, imp, modScope, ref) ==
  IF imp.hasItems /\ Len(imp.items) > 0
  THEN IF imp.alias # <<>> /\ Len(imp.items) = 1
       THEN BindItems(modules, <<imp.alias>>, (imp.alias :> Get(modScope, imp.items[1])), 1)
       ELSE BindItems(modules, imp.items, modScope, 1)
  ELSE Put(modules, IF imp.alias # <<>> THEN imp.alias ELSE imp.source, ref)

\* the caller after await compile(...), at the end of the body of its loop
Resumed(a, modScope, ref) ==
  [a EXCEPT !.modules = Bind(a.modules, a.imports[a.i], modScope, ref), !.i = a.i + 1, !.pc = "loop"]

\* interpret has returned result: the promise of the root resolves with it, or
\* the caller of a recursive compile goes on
Returned(task, result, ref) ==
  IF Len(task.stack) = 1
  THEN [task EXCEPT !.status = "resolved", !.result = result, !.stack = <<>>]
  ELSE [task EXCEPT !.stack =
          Append(SubSeq(task.stack, 1, Len(task.stack) - 2),
                 Resumed(task.stack[Len(task.stack) - 1], result.scope, ref))]

\* return { sceneGraph, logs, errors, scope }; the scope of a module is an
\* object that its importer may keep a reference to
EndInterpret(t) ==
  /\ mode = "done" /\ owner = t
  /\ Len(tasks[t].stack) > 1 \/ ~tasks[t].dropped
  /\ tasks' = [tasks EXCEPT ![t] =
       Returned(tasks[t], [sceneGraph |-> sceneGraph, logs |-> logs, errors |-> errors, scope |-> scope],
                Ref(Len(heap) + 1))]
  /\ heap' = IF Len(tasks[t].stack) > 1 THEN Append(heap, scope) ELSE heap
  /\ mode' = "idle"
  /\ owner' = 0
  /\ UNCHANGED <<scope, sceneGraph, logs, errors, ctl, started, thrown, iters, program,
                 libraryCache, fetches, fileSystem, lexer, runs>>

\* a result that keeps the logs of the run
FailureWithLogs(error) ==
  [sceneGraph |-> <<>>, logs |-> Compiling.logs, errors |-> <<error>>]

\* the catch of handleRun: setResult({ sceneGraph: {}, logs: [], errors: [e.message || ...] })
FailureShown(error) ==
  [sceneGraph |-> <<>>, logs |-> <<>>,
   errors |-> <<IF error = "" THEN "Unknown compiler error" ELSE error>>]

\* handleRun after its await: setResult(res), or the catch
ShowResult(t) ==
  /\ mode = "idle" /\ tasks[t].awaiting
  /\ tasks[t].status \in {"resolved", "rejected"}
  /\ tasks' = [tasks EXCEPT ![t] =
       [tasks[t] EXCEPT !.awaiting = FALSE,
                        !.shown = IF tasks[t].status = "resolved" THEN tasks[t].result
                                  ELSE FailureShown(tasks[t].error)]]
  /\ UNCHANGED <<ivars, libraryCache, fetches, fileSystem, lexer, runs, owner>>

(***************************************************************************)
(* tokenize on its own, over every short text of a small alphabet: a       *)
(* letter, a digit, a character no rule matches, blank, newline, quote,    *)
(* slash, equals sign and hash                                             *)
(***************************************************************************)
MaxSource == 4
Alphabet == {"a", "1", "$", " ", "\n", "\"", "/", "=", "#"}
SourceTexts == UNION {[1..n -> Alphabet] : n \in 0..MaxSource}

TokenizeInit ==
  /\ \E source \in SourceTexts : lexer = Scanning(source)
  /\ tasks = <<>>
  /\ libraryCache = <<>>
  /\ fetches = <<>>
  /\ fileSystem = <<>>
  /\ owner = 0
  /\ runs = <<>>
  /\ heap = <<>>
  /\ scope = <<>>
  /\ sceneGraph = <<>>
  /\ logs = <<>>
  /\ errors = <<>>
  /\ ctl = <<>>
  /\ started = <<>>
  /\ thrown = 0
  /\ iters = 0
  /\ program = <<>>
  /\ mode = "idle"

TokenizeNext == ScanTurn \/ PushEOF

\* the loop is straight-line code: a turn that can run does run
TokenizeSpec == TokenizeInit /\ [][TokenizeNext]_vars /\ WF_vars(TokenizeNext)

(***************************************************************************)
(* interpret called twice with one AST and one module table: the table     *)
(* binds b to the cube that the module `b = cube(...)` exports             *)
(***************************************************************************)
Calls == 2

\* the module: the state in which interpret leaves its one statement
TwiceModule == ExecSimpleBody(SceneStatements[2], <<>>, BuiltinScope, <<>>, <<>>, <<>>)
\* import b from lib
TwiceModules == (<<"b">> :> TwiceModule.scope[<<"b">>])

\* one statement each: c = b, c.move(1, 0, 0), console.print(b.id), c.pos = 1,2,3
TwiceSources ==
  <<<<"c", " ", "=", " ", "b">>,
  <<"c", ".", "m", "o", "v", "e", "(", "1", ",", " ", "0", ",", " ", "0", ")">>,
  <<"c", "o", "n", "s", "o", "l", "e", ".", "p", "r", "i", "n", "t", "(", "b", ".", "i", "d", ")">>,
  <<"c", ".", "p", "o", "s", " ", "=", " ", "1", ",", "2", ",", "3">>>>
TwiceStatements == [i \in 1..Len(TwiceSources) |-> ParseSource(TwiceSources[i]).statements[1]]
TwicePrograms == SeqsUpTo(1..Len(TwiceSources), MaxLen)

\* JSON.stringify of a value: the objects it refers to, written out
RECURSIVE Deep(_, _)
Deep(h, v) ==
  IF v.t = "ref" THEN [f \in DOMAIN h[v.r] |-> Deep(h, h[v.r][f])]
  ELSE IF v.t = "arr" THEN [i \in DOMAIN v.a |-> Deep(h, v.a[i])]
  ELSE IF v.t = "obj" THEN [f \in DOMAIN v.o |-> Deep(h, v.o[f])]
  ELSE v

\* sceneGraph and logs of the result, as they would be written out
Output == [sceneGraph |-> [k \in DOMAIN sceneGraph |-> Deep(heap, sceneGraph[k])], logs |-> logs]

TwiceInit ==
  /\ \E q \in TwicePrograms :
       InterpretInit([i \in 1..Len(q) |-> TwiceStatements[q[i]]], TwiceModules, TwiceModule.heap)
  /\ LoaderUnused

\* return { sceneGraph, logs, errors, scope }; the caller keeps what was
\* returned and, after the first call, calls interpret(ast, modules) again
InterpretReturns ==
  /\ mode = "done" /\ Len(runs) < Calls
  /\ runs' = Append(runs, Output)
  /\ IF Len(runs) + 1 < Calls
     THEN /\ scope' = SeedScope(TwiceModules)
          /\ sceneGraph' = <<>>
          /\ logs' = <<>>
          /\ errors' = <<>>
          /\ ctl' = <<BlockFrame(program)>>
          /\ started' = <<>>
          /\ thrown' = 0
          /\ iters' = 0
          /\ mode' = "run"
     ELSE /\ mode' = "idle"
          /\ UNCHANGED <<scope, sceneGraph, logs, errors, ctl, started, thrown, iters>>
  /\ UNCHANGED <<heap, program, tasks, libraryCache, fetches, fileSystem, owner, lexer>>

TwiceNext == ExecSimple \/ BlockEnd \/ InterpretReturns

TwiceSpec == TwiceInit /\ [][TwiceNext]_vars

Scenario(roots, files) == [roots |-> roots, files |-> files]
Scenarios ==
  {Scenario(<<MeshSemicolonSource>>, NoFiles), Scenario(<<MeshSource>>, NoFiles),
   Scenario([t \in 1..NTasks |-> IF t = 1 THEN UrlTwiceSource ELSE UrlSource], NoFiles),
   Scenario(<<CycleRootSource>>, CycleFiles), Scenario(<<LibRootSource>>, LibFiles),
   Scenario(<<MissingSource>>, NoFiles), Scenario(<<MissingBareSource>>, NoFiles),
   Scenario(<<ConstructorSource>>, NoFiles), Scenario(<<ToStringSource>>, NoFiles),
   Scenario(<<UrlAfterSource>>, NoFiles), Scenario(<<PartialSource>>, NoFiles),
   Scenario(<<ActionSource>>, NoFiles),
   Scenario(<<ItemsThenSource>>, LibFiles),
   Scenario(<<AliasSource>>, EmptyFirstFiles),
   Scenario(<<CoerceSource>>, NoFiles),
   Scenario(<<CallSource>>, LibFiles),
   Scenario(<<BareAssignSource>>, LibFiles),
   Scenario(<<TransitiveSource>>, BrokenFiles),
   Scenario(<<NegativeFirstSource>>, NoFiles), Scenario(<<NegativeSecondSource>>, NoFiles)}

CompileInit ==
  /\ \E sc \in Scenarios :
       /\ tasks = [t \in 1..Len(sc.roots) |-> Task(sc.roots[t])]
       /\ fileSystem = sc.files
  /\ libraryCache = <<>>
  /\ fetches = <<>>
  /\ owner = 0
  /\ lexer = NoScan
  /\ runs = <<>>
  /\ heap = <<>>
  /\ scope = <<>>
  /\ sceneGraph = <<>>
  /\ logs = <<>>
  /\ errors = <<>>
  /\ ctl = <<>>
  /\ started = <<>>
  /\ thrown = 0
  /\ iters = 0
  /\ program = <<>>
  /\ mode = "idle"

Tasks == DOMAIN tasks

CompileNext ==
  \/ \E t \in Tasks : Compile(t)
  \/ \E t \in Tasks : StackExhausted(t)
  \/ \E t \in Tasks : ResolveImport(t)
  \/ \E t \in Tasks : FetchReturns(t)
  \/ \E t \in Tasks : TextReturns(t)
  \/ \E t \in Tasks : BeginInterpret(t)
  \/ \E t \in Tasks : EndInterpret(t)
  \/ \E t \in Tasks : ShowResult(t)
  \/ InterpretNext

CompileSpec == CompileInit /\ [][CompileNext]_vars

\* the event loop runs a continuation that is ready
FairCompileSpec == CompileSpec /\ WF_vars(CompileNext)

(***************************************************************************)
(* Properties of interpret                                                 *)
(***************************************************************************)
AfterLog == K_logPrefix \o <<"a", "f", "t", "e", "r">>
OkLog == K_logPrefix \o <<"o", "k">>
CapExceeded == Err("Runtime Error: Loop exceeded 10000 iterations.", <<>>)

\* C1: interpret never throws to its caller: every exception raised by a
\* statement has become an entry of errors, the top-level statements are
\* started in program order without a gap, and interpret ends only by its
\* return, when every top-level statement has been started.
ContainedFailure ==
  /\ thrown <= Len(errors)
  /\ started = [i \in 1..Len(started) |-> i]
  /\ mode = "run" => ctl # <<>>
  /\ mode = "done" <=> ctl = <<>>
  /\ mode = "done" => Len(started) = Len(program)

\* a statement threw, and the statement after it has printed
ContainedFailureSeen ==
  /\ mode = "done"
  /\ thrown = 1
  /\ Len(program) = 3
  /\ program[2] = SceneStatements[7]
  /\ logs = <<OkLog>>

WhileTrueProgram == ParseSource(WhileTrueSource).statements

\* C2: while 1 == 1 { } runs its body exactly 10,000 times, appends exactly
\* one cap-exceeded error, and the statement after the loop is still executed.
WhileCapped ==
  program = WhileTrueProgram =>
    /\ iters <= LoopCap
    /\ mode = "done" => /\ iters = LoopCap
                        /\ errors = <<CapExceeded>>
                        /\ logs = <<AfterLog>>
                        /\ started = <<1, 2>>

WhileCappedSeen ==
  program = WhileTrueProgram /\ mode = "done" /\ iters = LoopCap /\ logs = <<AfterLog>>

\* the pairs of a range and the program that counts it
ForPrograms == {<<r, ParseSource(ForSource(r[1], r[2])).statements>> : r \in ForRanges}

\* the log entries of the values first..last, in increasing order
Counted(first, last) ==
  [k \in 1..(last - first + 1) |-> K_logPrefix \o IntToString(first + k - 1)]

\* C3: for i = start to end { console.print(i) } with start <= end and the
\* default step runs its body once for each value start..end in increasing
\* order (for 1 to 3: three entries, 1, 2, 3) and appends no cap-exceeded error.
ForCountsRange ==
  \A f \in ForPrograms :
    program = f[2] =>
      /\ errors = <<>>
      /\ Len(logs) <= f[1][2] - f[1][1] + 1
      /\ logs = SubSeq(Counted(f[1][1], f[1][2]), 1, Len(logs))
      /\ mode = "done" => logs = Counted(f[1][1], f[1][2]) /\ iters = f[1][2] - f[1][1] + 1

ForCountsRangeSeen ==
  /\ <<<<1, 3>>, program>> \in ForPrograms
  /\ mode = "done"
  /\ logs = <<K_logPrefix \o <<"1">>, K_logPrefix \o <<"2">>, K_logPrefix \o <<"3">>>>

(***************************************************************************)
(* Properties of the scene graph                                           *)
(***************************************************************************)
NameA == <<"a">>
NameB == <<"b">>
NameGrp == <<"g", "r", "p">>

\* executeStatement is about to run the n-th statement of SceneSources at top level
AtScene(n) ==
  /\ mode = "run" /\ Len(ctl) = 1
  /\ Top.i <= Len(Top.stmts)
  /\ Top.stmts[Top.i] = SceneStatements[n]

\* C4: after every executed statement, every scope key bound to a geometry or
\* a group is a key of sceneGraph bound to the same object, whose id is the key.
ScopeMirrored ==
  \A k \in DOMAIN scope :
    IsSceneValue(heap, scope[k]) =>
      /\ k \in DOMAIN sceneGraph
      /\ sceneGraph[k] = scope[k]
      /\ PropOf(heap, scope[k], K_id) = Str(k)

Corner(x, y, z) == Obj(XYZ(Num(x), Num(y), Num(z)))
Quad(a, b, c, d) == Obj((K_indices :> Arr(<<Num(a), Num(b), Num(c), Num(d)>>)))
\* the vertices written in the cube literal of SceneSources, and the six quads
CubeCorners ==
  <<Corner(0, 0, 0), Corner(1, 0, 0), Corner(1, 1, 0), Corner(0, 1, 0),
    Corner(0, 0, 1), Corner(1, 0, 1), Corner(1, 1, 1), Corner(0, 1, 1)>>
CubeQuads ==
  <<Quad(0, 1, 2, 3), Quad(4, 5, 6, 7), Quad(0, 1, 5, 4),
    Quad(1, 2, 6, 5), Quad(2, 3, 7, 6), Quad(3, 0, 4, 7)>>
WrongCount == Err("Runtime Error: cube() requires exactly 8 vertices.", <<>>)

\* the scene-graph entry under name is a mesh of the 8 corners and the 6 quads
IsCube(h, sg, name) ==
  /\ name \in DOMAIN sg
  /\ PropOf(h, sg[name], K_type) = Str(K_geometry)
  /\ PropOf(h, sg[name], K_shape) = Str(K_mesh)
  /\ PropOf(h, sg[name], K_vertices) = Arr(CubeCorners)
  /\ PropOf(h, sg[name], K_faces) = Arr(CubeQuads)

\* C5: assigning a cube literal of 8 vertex strings puts a mesh of those 8
\* vertices and of the 6 quads, in their order, into the scene graph; with
\* another number of vertices the diagnostic is appended, the value is no
\* object and the scene graph is left as it was.
CubeLiteral ==
  [][/\ AtScene(1) => IsCube(heap', sceneGraph', NameA) /\ errors' = errors
     /\ AtScene(3) => /\ errors' = Append(errors, WrongCount)
                      /\ scope'[NameA] = Null
                      /\ sceneGraph' = sceneGraph
                      /\ heap' = heap]_vars

\* both assignments have run: the cube is in the scene graph, the diagnostic
\* in errors
CubeLiteralSeen ==
  /\ mode = "done"
  /\ Len(program) = 2 /\ program[1] = SceneStatements[1] /\ program[2] = SceneStatements[3]
  /\ IsCube(heap, sceneGraph, NameA)
  /\ errors = <<WrongCount>>
  /\ DOMAIN sceneGraph = {NameA}

\* the children of the group in the scene graph under grp
GrpChildren(h, sg) == PropOf(h, Get(sg, NameGrp), K_children)
\* grp lists a, and the object under a names grp as its parent
Wired(h, sg) ==
  /\ NameGrp \in DOMAIN sg /\ NameA \in DOMAIN sg
  /\ GrpChildren(h, sg) = Arr(<<Str(NameA), Str(NameB)>>)
  /\ PropOf(h, sg[NameA], K_parent) = Str(NameGrp)

\* C6: grp = group[a,b] on two scene objects lists both and makes grp their
\* parent; a later a.pos = 1,2,3 leaves grp.children and sceneGraph.a.parent
\* as they are; assigning a new object to a leaves grp.children as it was
\* wired, and the new object has no parent.
GroupWiring ==
  [][/\ (AtScene(5) /\ IsSceneValue(heap, Get(scope, NameA)) /\ IsSceneValue(heap, Get(scope, NameB)))
          => /\ Wired(heap', sceneGraph')
             /\ PropOf(heap', scope'[NameB], K_parent) = Str(NameGrp)
     /\ (AtScene(6) /\ Wired(heap, sceneGraph))
          => /\ Wired(heap', sceneGraph')
             /\ heap'[PropOf(heap', sceneGraph'[NameA], K_pos).r] = XYZ(Num(1), Num(2), Num(3))
     /\ (AtScene(1) /\ Wired(heap, sceneGraph))
          => /\ GrpChildren(heap', sceneGraph') = GrpChildren(heap, sceneGraph)
             /\ sceneGraph'[NameA] # sceneGraph[NameA]
             /\ PropOf(heap', sceneGraph'[NameA], K_parent) = Null
             /\ PropOf(heap', sceneGraph[NameA], K_parent) = Str(NameGrp)]_vars

\* the group was wired, a was moved and then assigned a new cube
GroupWiringSeen ==
  /\ mode = "done"
  /\ program = [i \in 1..Len(RewiredProgram) |-> SceneStatements[RewiredProgram[i]]]
  /\ GrpChildren(heap, sceneGraph) = Arr(<<Str(NameA), Str(NameB)>>)
  /\ PropOf(heap, sceneGraph[NameA], K_parent) = Null
  /\ PropOf(heap, sceneGraph[NameB], K_parent) = Str(NameGrp)

(***************************************************************************)
(* Properties of compile                                                   *)
(***************************************************************************)
Settled(t) == tasks[t].status \in {"resolved", "rejected"}

\* the result of task t has under a a mesh of 3 vertices and of 1 face of 3
\* indices, and its logs contain ok
MeshResult(t) ==
  /\ tasks[t].status = "resolved"
  /\ NameA \in DOMAIN tasks[t].result.sceneGraph
  /\ Len(PropOf(heap, tasks[t].result.sceneGraph[NameA], K_vertices).a) = 3
  /\ Len(PropOf(heap, tasks[t].result.sceneGraph[NameA], K_faces).a) = 1
  /\ Len(PropOf(heap, PropOf(heap, tasks[t].result.sceneGraph[NameA], K_faces).a[1], K_indices).a) = 3
  /\ OkLog \in Range(tasks[t].result.logs)

\* C7 as stated: the mesh program with a ; after each closing ] compiles to
\* sceneGraph.a with 3 vertices and 1 face of 3 indices, and logs ok.
MeshSemicolonCompiles ==
  \A t \in DOMAIN tasks :
    (tasks[t].src = MeshSemicolonSource /\ Settled(t)) => MeshResult(t)

\* C7: the mesh program without a ; after its closing ] compiles to
\* sceneGraph.a with 3 vertices and 1 face of 3 indices, and logs ok; with a ;
\* after each closing ] compile rejects with a syntax error.
MeshCompiles ==
  \A t \in DOMAIN tasks :
    /\ (tasks[t].src = MeshSource /\ Settled(t)) => MeshResult(t)
    /\ (tasks[t].src = MeshSemicolonSource /\ Settled(t)) =>
         tasks[t].status = "rejected" /\ tasks[t].error = "SyntaxError"

MeshCompilesSeen ==
  \E t \in DOMAIN tasks : tasks[t].src = MeshSource /\ MeshResult(t)

\* C8: each URL is fetched over the network at most once, whatever the
\* sequence or the interleaving of the invocations of compile.
FetchedOnce ==
  \A i, j \in DOMAIN fetches : fetches[i] = fetches[j] => i = j

UnresolvedRoots == {MissingSource, MissingBareSource, ConstructorSource, ToStringSource}

\* C10: a program importing a local name that none of the candidates of the
\* file table matches does not reject, its scope has no binding for the
\* import, and its other statements are interpreted.
UnresolvedImportHarmless ==
  \A t \in DOMAIN tasks :
    (fileSystem = NoFiles /\ tasks[t].src \in UnresolvedRoots /\ Settled(t)) =>
      /\ tasks[t].status = "resolved"
      /\ DOMAIN tasks[t].result.scope = DOMAIN BuiltinScope
      /\ AfterLog \in Range(tasks[t].result.logs)

(***************************************************************************)
(* Properties of the loader's failure paths                                *)
(***************************************************************************)
NameM == <<"m">>
TheUrl == <<"h", "t", "t", "p", ":", "/", "/", "u">>
FailedLog == K_logPrefix \o <<"F", "a", "i", "l", "e", "d", " ", "t", "o", " ", "l", "o", "a", "d", " ">> \o TheUrl

\* every fetch task t has started has failed: nothing was cached
AllFetchesFailed(t) == Len(tasks) = 1 /\ fetches # <<>> /\ libraryCache = <<>>

\* the network answered a fetch of task t with the text that does not parse
GotBroken(t) == Str(BrokenSource) \in Range(tasks[t].responses)

\* C11: when the fetch of a URL import fails, compile does not reject (no
\* compile of a URL import does, unless a fetched text does not parse): the
\* fallback program console.print("Failed to load <url>") is compiled and
\* interpreted in place of the module, its scope is bound as the module, and
\* the statements of the importer are interpreted.
FetchFailureContained ==
  \A t \in DOMAIN tasks :
    /\ (tasks[t].src \in {UrlSource, UrlTwiceSource, UrlAfterSource} /\ \A s \in DOMAIN tasks : ~GotBroken(s))
         => tasks[t].status # "rejected"
    /\ (At(t, "call") /\ AllFetchesFailed(t)) => Act(t).modSource = Fallback(TheUrl)
    /\ (mode = "done" /\ owner = t /\ AllFetchesFailed(t) /\ Len(tasks[t].stack) = 2) =>
         logs = <<FailedLog>> /\ errors = <<>>
    /\ (tasks[t].src = UrlAfterSource /\ AllFetchesFailed(t) /\ Settled(t)) =>
         /\ AfterLog \in Range(tasks[t].result.logs)
         /\ NameM \in DOMAIN tasks[t].result.scope
         /\ heap[tasks[t].result.scope[NameM].r] = BuiltinScope

FetchFailureContainedSeen ==
  \E t \in DOMAIN tasks :
    /\ tasks[t].src = UrlAfterSource /\ AllFetchesFailed(t)
    /\ tasks[t].status = "resolved"
    /\ AfterLog \in Range(tasks[t].result.logs)
    /\ heap[tasks[t].result.scope[NameM].r] = BuiltinScope

\* C12: when the parse of the source handed to compile fails, compile rejects
\* and no statement has been interpreted: no scene graph, no logs, no object;
\* handleRun then shows exactly one error message, an empty scene graph and
\* no logs.
ParseFailureAborts ==
  \A t \in DOMAIN tasks :
    ~Read(tasks[t].src).ok =>
      /\ tasks[t].status \in {"idle", "rejected"}
      /\ tasks[t].result = NoResult
      /\ Len(tasks) = 1 =>
           /\ mode = "idle" /\ program = <<>> /\ started = <<>>
           /\ sceneGraph = <<>> /\ logs = <<>> /\ errors = <<>> /\ heap = <<>>
      /\ (tasks[t].status = "rejected" /\ ~tasks[t].awaiting) =>
           /\ tasks[t].shown.sceneGraph = <<>>
           /\ tasks[t].shown.logs = <<>>
           /\ Len(tasks[t].shown.errors) = 1
           /\ tasks[t].shown.errors[1] = tasks[t].error

\* the program whose second statement breaks off was rejected and shown
ParseFailureAbortsSeen ==
  \E t \in DOMAIN tasks :
    /\ tasks[t].src = PartialSource
    /\ tasks[t].status = "rejected" /\ ~tasks[t].awaiting
    /\ tasks[t].shown = [sceneGraph |-> <<>>, logs |-> <<>>, errors |-> <<"UnknownExpression">>]
    /\ logs = <<>>

\* the line of the last token of a source text
LastLine(text) == tokenize(text)[Len(tokenize(text))].line

\* C13: parse of a token stream that ends in one EOF token never reads past
\* that token, and either returns a Program or raises an error whose message
\* cites a line number between 1 and the line of the last token.
ParseCitesLine ==
  \A t \in DOMAIN tasks :
    (tasks[t].status = "rejected" /\ ~Read(tasks[t].src).ok) =>
      /\ Read(tasks[t].src).error # "TypeError"
      /\ Read(tasks[t].src).line \in 1..LastLine(tasks[t].src)

\* the characters that no rule of tokenize matches
Matched == Whitespace \cup SymbolChars \cup Digits \cup IdentStart \cup {"\"", "#"}
AtUnmatched == lexer.cursor <= Len(lexer.source) /\ lexer.source[lexer.cursor] \notin Matched
EOFs(tokens) == {i \in DOMAIN tokens : tokens[i].type = "EOF"}

\* C14: tokenize returns for every source text, and what it returns ends in
\* the one EOF token it holds; while it scans it holds none, every turn of
\* its loop moves the cursor forward, and a turn at a character that no rule
\* matches pushes no token and leaves the scan running one character on.
TokenizeTotal ==
  /\ [](IF lexer.done THEN /\ EOFs(lexer.tokens) = {Len(lexer.tokens)}
                           /\ lexer.tokens = tokenize(lexer.source)
                      ELSE /\ EOFs(lexer.tokens) = {}
                           /\ lexer.cursor <= Len(lexer.source) + 2)
  /\ [][/\ ~lexer.done
        /\ lexer'.done \/ lexer'.cursor > lexer.cursor
        /\ AtUnmatched => /\ lexer'.tokens = lexer.tokens
                          /\ lexer'.cursor = lexer.cursor + 1
                          /\ lexer'.line = lexer.line
                          /\ ~lexer'.done]_vars
  /\ <>lexer.done

\* a$1 was scanned: the letter and the digit are tokens, the dollar sign is not
TokenizeTotalSeen ==
  /\ lexer.done
  /\ lexer.source = <<"a", "$", "1">>
  /\ lexer.tokens = <<Token("IDENTIFIER", <<"a">>, 1), Token("NUMBER", <<"1">>, 1), Token("EOF", <<>>, 1)>>

NameN == <<"n">>
NameOk == <<"o", "k">>
NameFine == <<"f", "i", "n", "e">>
NameLib == <<"l", "i", "b">>

\* the scope that lib.klang exports: n is 5, ok is 1, b is a cube
ExportsOfLib(M) ==
  /\ {NameN, NameOk, NameB} \subseteq DOMAIN M
  /\ M[NameN] = Num(5) /\ M[NameOk] = Num(1) /\ M[NameB].t = "ref"

\* C15: an import of names from the module lib binds each name the module
\* exports under that name, `import lib as m` binds the module's whole scope
\* under m, `import ok from lib as fine` binds the module's ok under fine and
\* binds no ok; the compile of a program that imports from lib is not rejected.
ImportBinds ==
  \A t \in DOMAIN tasks :
    /\ tasks[t].src \in {LibRootSource, ItemsThenSource} => tasks[t].status # "rejected"
    /\ (tasks[t].src = ItemsThenSource /\ tasks[t].status = "resolved") =>
         /\ NameN \in DOMAIN tasks[t].result.scope
         /\ tasks[t].result.scope[NameN] = Num(5)
    /\ (tasks[t].src = LibRootSource /\ tasks[t].status = "resolved") =>
         /\ {NameN, NameB, NameM, NameFine} \subseteq DOMAIN tasks[t].result.scope
         /\ NameOk \notin DOMAIN tasks[t].result.scope
         /\ tasks[t].result.scope[NameN] = Num(5)
         /\ tasks[t].result.scope[NameB].t = "ref"
         /\ tasks[t].result.scope[NameFine] = Num(1)
         /\ tasks[t].result.scope[NameM].t = "ref"
         /\ ExportsOfLib(heap[tasks[t].result.scope[NameM].r])

\* the text under the first of paths that is a key of the table fs ("" if none is)
Present(fs, paths) == {i \in DOMAIN paths : paths[i] \in DOMAIN fs}
FirstText(fs, paths) ==
  IF Present(fs, paths) = {} THEN Str(<<>>) ELSE fs[paths[Least(Present(fs, paths))]]

\* C16: the module text that compile is called with for a non-URL import is
\* the text stored under the first candidate name that is a key of the file
\* table, and a module is compiled only if that text is not empty.
FirstPresentWins ==
  \A t \in DOMAIN tasks :
    (At(t, "call") /\ ~startsWithHttp(Imp(t).source)) =>
      Act(t).modSource = FirstText(fileSystem, possiblePaths(Imp(t).source))

\* C17: the second call of interpret on the same AST and the same module
\* table returns the scene graph and the logs that the first call returned.
RunsAgree == Len(runs) = Calls => runs[1] = runs[2]

(***************************************************************************)
(* What compile returns when it runs alone and the network answers every   *)
(* fetch with one response: the statements of the sources concerned have   *)
(* no block, so they are executed one after the other                      *)
(***************************************************************************)
RECURSIVE RunSimple(_, _, _)
RunSimple(stmts, i, r) ==
  IF i > Len(stmts) THEN r
  ELSE RunSimple(stmts, i + 1,
                 ExecSimpleBody(stmts[i], r.heap, r.scope, r.sceneGraph, r.logs, r.errors))

Interpreted(stmts, modules, h) ==
  RunSimple(stmts, 1, Done(h, modules @@ BuiltinScope, <<>>, <<>>, <<>>))

ModSourceOf(imp, response) == IF response = FetchFailed THEN Fallback(imp.source) ELSE response

ModuleBound(imports, i, modules, m) ==
  [modules |-> Bind(modules, imports[i], m.scope, Ref(Len(m.heap) + 1)),
   heap |-> Append(m.heap, m.scope)]

RECURSIVE AloneModules(_, _, _, _)
AloneModules(imports, i, response, b) ==
  IF i > Len(imports) THEN b
  ELSE IF ~Truthy(ModSourceOf(imports[i], response))
  THEN AloneModules(imports, i + 1, response, b)
  ELSE AloneModules(imports, i + 1, response,
         ModuleBound(imports, i, b.modules,
                     Interpreted(Read(ModSourceOf(imports[i], response).s).statements, <<>>, b.heap)))

\* a result with the objects it refers to written out
DeepResult(h, res) ==
  [sceneGraph |-> [k \in DOMAIN res.sceneGraph |-> Deep(h, res.sceneGraph[k])],
   logs |-> res.logs, errors |-> res.errors,
   scope |-> [k \in DOMAIN res.scope |-> Deep(h, res.scope[k])]]

AloneRun(stmts, b) == Interpreted(stmts, b.modules, b.heap)
AloneResult(stmts, r) == DeepResult(r.heap, r)
Alone(src, response) ==
  AloneResult(Read(src).statements,
    AloneRun(Read(src).statements,
      AloneModules(SelectSeq(Read(src).statements, IsImport), 1, response,
                   [modules |-> <<>>, heap |-> <<>>])))

UrlRoots == {UrlSource, UrlTwiceSource, UrlAfterSource}
Responses == {FetchFailed} \cup {Str(body) : body \in Bodies}
AloneResults == {<<src, response, Alone(src, response)>> : src \in UrlRoots, response \in Responses}
AloneOf(src, response) == (CHOOSE a \in AloneResults : a[1] = src /\ a[2] = response)[3]

\* every fetch that any invocation has had answered was answered with response
AllAnswered(response) ==
  \A u \in DOMAIN tasks : \A i \in DOMAIN tasks[u].responses : tasks[u].responses[i] = response

\* C18: an invocation of compile that runs while another one is suspended at
\* a fetch returns what it returns alone: when the network gives one and the
\* same response to every fetch, the scene graph, logs, errors and scope of
\* each resolved invocation are those of its run alone with that response.
OverlapIsolated ==
  \A t \in DOMAIN tasks : \A response \in Responses :
    (tasks[t].src \in UrlRoots /\ tasks[t].status = "resolved" /\ AllAnswered(response)) =>
      DeepResult(heap, tasks[t].result) = AloneOf(tasks[t].src, response)

\* both invocations fetched before either had cached, got x = 1 and resolved
OverlapIsolatedSeen ==
  /\ Len(tasks) = 2
  /\ \A t \in DOMAIN tasks :
       tasks[t].status = "resolved" /\ tasks[t].responses = <<Str(<<"x", " ", "=", " ", "1">>)>>

FiveLog == K_logPrefix \o <<"5">>

\* C19: the program console.print(int(5)) is accepted by the parser, its
\* compile resolves, and it logs the coerced value 5.
CoercionCalls ==
  \A t \in DOMAIN tasks :
    tasks[t].src = CoerceSource =>
      /\ tasks[t].status # "rejected"
      /\ tasks[t].status = "resolved" => tasks[t].result.logs = <<FiveLog>>

ObjectLog == K_logPrefix \o K_objectObject

\* C20: in console.print(m.toString()), m being an imported module, the
\* function that m.toString names is invoked and what it returns, the string
\* [object Object], is the value of the call: it is what the program logs.
LibraryCallInvokes ==
  \A t \in DOMAIN tasks :
    (tasks[t].src = CallSource /\ tasks[t].status = "resolved") =>
      ObjectLog \in Range(tasks[t].result.logs)

(***************************************************************************)
(* Properties of loops, of nested statements and of property assignment    *)
(***************************************************************************)
CountingProgram == ParseSource(CountingSource).statements
ForBoundProgram == ParseSource(ForBoundSource).statements

\* C21: the condition of a while loop and the bound of a for loop are
\* evaluated again on each iteration: n = 0 while n < 3 { n = n + 1 } runs
\* its body 3 times, and n = 3 for i = 1 to n { n = 1 } runs its body once,
\* the body having lowered the bound to 1.
RangeReevaluated ==
  /\ (program = CountingProgram /\ mode = "done") => iters = 3
  /\ (program = ForBoundProgram /\ mode = "done") => iters = 1

\* the program of the scene statements whose numbers are q
ProgramOf(q) == [i \in 1..Len(q) |-> SceneStatements[q[i]]]
\* the position of the scene object named n, as x, y, z
PosOf(n) == [c \in {K_x, K_y, K_z} |-> PropOf(heap, PropOf(heap, sceneGraph[n], K_pos), c)]
Triple(x, y, z) == (K_x :> Num(x)) @@ (K_y :> Num(y)) @@ (K_z :> Num(z))

\* C22: after a.pos = 1,2,3 the statement b.pos = a(1, 1, 1) sets the
\* position of b to that of a plus (1, 1, 1), that is 2,3,4, and leaves a
\* at 1,2,3.
RelativePosApplied ==
  (program = ProgramOf(RelativeProgram) /\ mode = "done") =>
    /\ PosOf(NameB) = Triple(2, 3, 4)
    /\ PosOf(NameA) = Triple(1, 2, 3)

\* the warning for the material reference ref
NotFound(ref) == Err("Warning: Material not found.", ref)
\* the material of face i of the mesh named m
MaterialOf(i) == PropOf(heap, PropOf(heap, sceneGraph[NameM], K_faces).a[i], K_material)

\* C23: a mesh literal with faces whose material is not bound in scope
\* appends one warning for each such face and none for the others, is put in
\* the scene graph with all its vertices and faces, those faces having the
\* material null, and the statement after it runs; so it is for the faces
\* naming nomat and lib.x, and for the face naming toString.
UnresolvedMaterialWarns ==
  /\ (program = ProgramOf(MeshFacesProgram) /\ mode = "done") =>
       /\ errors = <<NotFound(Str(<<"n", "o", "m", "a", "t">>)),
                     NotFound(Obj((K_lib :> Str(<<"l", "i", "b">>)) @@ (K_item :> Str(<<"x">>))))>>
       /\ NameM \in DOMAIN sceneGraph
       /\ Len(PropOf(heap, sceneGraph[NameM], K_vertices).a) = 2
       /\ Len(PropOf(heap, sceneGraph[NameM], K_faces).a) = 4
       /\ MaterialOf(1) = Null /\ MaterialOf(4) = Null
       /\ MaterialOf(2) = scope[NameA] /\ MaterialOf(3) = Null
       /\ logs = <<OkLog>>
  /\ (program = ProgramOf(InheritedMaterialProgram) /\ mode = "done") =>
       /\ errors = <<NotFound(Str(<<"t", "o", "S", "t", "r", "i", "n", "g">>))>>
       /\ MaterialOf(1) = Null
       /\ logs = <<OkLog>>

FullRangeProgram == ParseSource(FullRangeSource).statements
FullCountProgram == ParseSource(FullCountSource).statements

\* C24: a loop that ends by its own range or condition appends no error of
\* the cap, also when it has run as many iterations as the cap allows:
\* for i = 1 to 10000 { } and n = 0 while n < 10000 { n = n + 1 } run their
\* bodies 10000 times and leave errors empty.
CapOnlyWhenCut ==
  (program \in {FullRangeProgram, FullCountProgram} /\ mode = "done") =>
    /\ iters = LoopCap
    /\ errors = <<>>

\* the program that task t parsed is an import of source alone, with neither
\* items nor alias, and after it one statement of type next
ImportThen(t, source, next) ==
  /\ Len(tasks[t].stack[1].ast) = 2
  /\ tasks[t].stack[1].ast[1].type = "Import"
  /\ tasks[t].stack[1].ast[1].source = source
  /\ tasks[t].stack[1].ast[2].type = next

\* C25: a bare import takes only its own tokens: import lib a = 1 parses
\* into the import of lib and the assignment, import nothing
\* console.print("after") into the import of nothing and the print, and
\* neither is rejected.
BareImportAlone ==
  \A t \in DOMAIN tasks :
    /\ tasks[t].src \in {BareAssignSource, MissingBareSource} => tasks[t].status # "rejected"
    /\ (tasks[t].src = BareAssignSource /\ tasks[t].stack # <<>>) =>
         ImportThen(t, <<"l", "i", "b">>, "Assignment")
    /\ (tasks[t].src = MissingBareSource /\ tasks[t].stack # <<>>) =>
         ImportThen(t, <<"n", "o", "t", "h", "i", "n", "g">>, "ConsolePrint")

\* the scene object o names no parent, or names a group of the scene graph
\* whose children contain the id of o
ParentListsChild(o) ==
  PropOf(heap, o, K_parent) # Null =>
    /\ PropOf(heap, o, K_parent).s \in DOMAIN sceneGraph
    /\ PropOf(heap, sceneGraph[PropOf(heap, o, K_parent).s], K_type) = Str(K_group)
    /\ PropOf(heap, o, K_id) \in Range(PropOf(heap, sceneGraph[PropOf(heap, o, K_parent).s], K_children).a)

\* C26: after every statement each object of the scene graph that names a
\* parent is listed among the children of that group of the scene graph;
\* also after a group name is assigned again and after a modifier has cloned
\* an object that has a parent.
ParentsAgree ==
  \A n \in DOMAIN sceneGraph : ParentListsChild(sceneGraph[n])

\* C27: a module that does not parse, imported by a module of the root or
\* fetched by the root, rejects the compile of the root: the task never
\* resolves, it has no result, nothing of it is interpreted, and handleRun
\* shows the error alone, with an empty scene graph and no logs.
NestedFailureRejects ==
  \A t \in DOMAIN tasks :
    /\ tasks[t].src = TransitiveSource =>
         /\ tasks[t].status # "resolved" /\ tasks[t].result = NoResult
         /\ mode = "idle" /\ program = <<>> /\ started = <<>> /\ logs = <<>>
         /\ Len(tasks[t].stack) <= 2
    /\ GotBroken(t) =>
         /\ tasks[t].status # "resolved" /\ tasks[t].result = NoResult
         /\ owner # t
    /\ ((tasks[t].src = TransitiveSource \/ GotBroken(t)) /\ Settled(t) /\ ~tasks[t].awaiting) =>
         tasks[t].shown = FailureShown(tasks[t].error)

\* the root whose module imports the broken module was rejected and shown
NestedFailureRejectsSeen ==
  \E t \in DOMAIN tasks :
    /\ tasks[t].src = TransitiveSource
    /\ tasks[t].status = "rejected" /\ ~tasks[t].awaiting
    /\ tasks[t].shown = [sceneGraph |-> <<>>, logs |-> <<>>, errors |-> <<"UnknownExpression">>]

\* the position that the result of task t has for the object a
ResultPos(t) ==
  [c \in {K_x, K_y, K_z} |->
     PropOf(heap, PropOf(heap, tasks[t].result.sceneGraph[NameA], K_pos), c)]

\* C28: a.pos = x,y,z with literal components parses as one property
\* assignment of the three and sets the position of a to them, also when a
\* component is negative: a.pos = -1,2,3 gives -1,2,3 and a.pos = 1,-2,3
\* gives 1,-2,3, and neither program is rejected.
NegativeTripleAssigned ==
  \A t \in DOMAIN tasks :
    /\ tasks[t].src \in {NegativeFirstSource, NegativeSecondSource} => tasks[t].status # "rejected"
    /\ (tasks[t].src = NegativeFirstSource /\ tasks[t].status = "resolved") =>
         ResultPos(t) = Triple(0 - 1, 2, 3) /\ tasks[t].result.errors = <<>>
    /\ (tasks[t].src = NegativeSecondSource /\ tasks[t].status = "resolved") =>
         ResultPos(t) = Triple(1, 0 - 2, 3) /\ tasks[t].result.errors = <<>>

NestedFailProgram == ParseSource(NestedFailSource).statements
Caught == Err("Error executing statement", <<>>)
LogOf(text) == K_logPrefix \o text

\* C29: an exception of a statement in the body of a for, of a while or of
\* an if becomes one entry of errors, for that statement alone, and the rest
\* of the body and the further iterations run: with a.rotate() before a print
\* in the bodies of a for of 2 iterations, of a while of 2 iterations and of
\* an if, errors ends with 5 entries and the logs with the 5 prints.
NestedContained ==
  program = NestedFailProgram =>
    /\ Len(errors) = thrown
    /\ mode = "done" =>
         /\ errors = <<Caught, Caught, Caught, Caught, Caught>>
         /\ logs = <<LogOf(<<"1">>), LogOf(<<"2">>), LogOf(<<"1">>), LogOf(<<"2">>), LogOf(<<"t">>)>>
         /\ iters = 4

NestedContainedSeen ==
  /\ program = NestedFailProgram /\ mode = "done"
  /\ thrown = 5 /\ Len(errors) = 5 /\ Len(logs) = 5

NameC == <<"c">>
\* a statement of a program that applies a modifier to a is about to run, a
\* having its position
BaseSettled ==
  /\ program \in {ProgramOf(ModifyProgram), ProgramOf(PyramidProgram)}
  /\ mode = "run" /\ Len(ctl) = 1 /\ Top.i <= Len(Top.stmts)
  /\ Top.stmts[Top.i] # SceneStatements[6]
  /\ NameA \in DOMAIN sceneGraph /\ PosOf(NameA) = Triple(1, 2, 3)

\* C30: the evaluation of a modifier leaves its base as it was, and so does
\* every later change of the modifier's result: from a.pos = 1,2,3 on, the
\* statements c = modifier.translate { base = a x = 1 }, c = modifier.pyramid
\* { base = a height = 2 }, c.pos = 4,5,6, c.rotate(90) and c.move(1, 0, 0)
\* leave the object a, all its fields, and the entries of a in scope and in
\* the scene graph unchanged.
ModifierKeepsBase ==
  [][BaseSettled =>
       /\ sceneGraph'[NameA] = sceneGraph[NameA]
       /\ scope'[NameA] = scope[NameA]
       /\ Deep(heap', sceneGraph'[NameA]) = Deep(heap, sceneGraph[NameA])]_vars

\* the clone of a was moved to 5,5,6 and turned, a is at 1,2,3 under grp
ModifierKeepsBaseSeen ==
  /\ program = ProgramOf(ModifyProgram) /\ mode = "done"
  /\ PosOf(NameC) = Triple(5, 5, 6)
  /\ PosOf(NameA) = Triple(1, 2, 3)
  /\ PropOf(heap, sceneGraph[NameA], K_id) = Str(NameA)
  /\ PropOf(heap, sceneGraph[NameA], K_parent) = Str(NameGrp)
  /\ errors = <<>>
====
